---- MODULE Spec2Model ----
(***************************************************************************)
(* Document-processing pipeline of the tax-return application.             *)
(*                                                                         *)
(* The persisted state is the Document, IncomeEntry and TaxReturn tables   *)
(* of one tax return.  The operations are the route handlers that read and *)
(* write them: POST process (src/unnamed/part_000), DELETE document        *)
(* (src/app/api/documents/[id]/route.ts) and POST cleanup                  *)
(* (src/components/enhanced-document-management.tsx, lines 596-791).       *)
(* A handler that is not wrapped in prisma.$transaction is one action per  *)
(* awaited database operation, so that concurrent requests interleave      *)
(* between its awaits; a prisma.$transaction body is one atomic action.    *)
(* Money is kept in integer cents.                                         *)
(***************************************************************************)
EXTENDS Integers, FiniteSets, Sequences, TLC

VARIABLES
  docs,       \* Document table: id -> row, for the rows that exist
  entries,    \* IncomeEntry table: set of rows
  taxReturn,  \* the TaxReturn row
  req,        \* the requests: position and local variables of their handler
  stream,     \* the status stream of a document (server-sent events)
  rtm,        \* DocumentRealTimeProcessor: one file's entry and its monitoring
  dp,         \* DocumentProcessor: one file's entry and its fallback poll loop
  call        \* the last call of a library function: its input and its result

vars == <<docs, entries, taxReturn, req, stream, rtm, dp, call>>

Null == "null"          \* a null scalar (an id, a code, a type)
None == [none |-> TRUE]  \* a null object

(* ---------------------------------------------------------------------- *)
(* Fixture: one tax return owned by user u1 with two uploaded documents.  *)
(* ---------------------------------------------------------------------- *)
DocIds == {"d1", "d2"}
Owner == "u1"
\* a request's session: none, a session whose e-mail has no User row, or a user
Sessions == {"none", "ghost", "u1", "u2"}
\* requests, numbered in their order of arrival; each is a process, a delete
\* or a cleanup request
ReqIds == {1, 2, 3}
\* the requests whose handlers run concurrently
ConcurrentIds == {1, 2}

\* IncomeEntry rows with documentId = null (the column is nullable) that exist
\* before any request: at most this many, each of this amount
MaxOrphanedEntries == 1
OrphanedAmount == 700 * 100

Max(a, b) == IF a >= b THEN a ELSE b
Min(a, b) == IF a <= b THEN a ELSE b

RECURSIVE SumOf(_, _)
\* entries.reduce((sum, entry) => sum + f(entry), 0)
SumOf(S, field) ==
  IF S = {} THEN 0
  ELSE LET e == CHOOSE x \in S : TRUE
       IN e[field] + SumOf(S \ {e}, field)

(* ---------------------------------------------------------------------- *)
(* Tax calculator                                                         *)
(* ---------------------------------------------------------------------- *)
\* amount * rate, rate given in 1/10000, rounded to the cent
MulRate(c, r) == (c \div 10000) * r + (((c % 10000) * r + 5000) \div 10000)

\* lib/tax-calculations is not part of the sources: federal figures follow the
\* contract of section 4.3 of the specification with a single-filer table
getStandardDeduction == 1460000

calculateTaxLiability(taxable) ==
  MulRate(Min(taxable, 1160000), 1000)
  + (IF taxable > 1160000 THEN MulRate(Min(taxable, 4715000) - 1160000, 1200) ELSE 0)
  + (IF taxable > 4715000 THEN MulRate(taxable - 4715000, 2200) ELSE 0)

calculateTaxReturn(totalIncome, totalWithholdings) ==
  LET agi == totalIncome
      taxable == Max(0, agi - getStandardDeduction)
      liability == calculateTaxLiability(taxable)
      finalTax == liability
  IN [adjustedGrossIncome |-> agi,
      taxableIncome |-> taxable,
      taxLiability |-> liability,
      totalWithholdings |-> totalWithholdings,
      refundAmount |-> Max(0, 0 - finalTax),
      amountOwed |-> Max(0, finalTax)]

\* a bracket without upper limit (max: Infinity)
Infinity == 2000000000

FilingStatus == "SINGLE"

\* filingStatus.toLowerCase().replace(/_/g, '')
BracketKey(filingStatus) ==
  CASE filingStatus = "SINGLE" -> "single"
    [] filingStatus = "MARRIED_FILING_JOINTLY" -> "marriedfilingjointly"
    [] filingStatus = "MARRIED_FILING_SEPARATELY" -> "marriedfilingseparately"
    [] filingStatus = "HEAD_OF_HOUSEHOLD" -> "headofhousehold"
    [] filingStatus = "QUALIFYING_SURVIVING_SPOUSE" -> "qualifyingsurvivingspouse"
    [] OTHER -> "other"

\* the states of STATE_TAX_DATA kept here
StateCodes == {"IL", "CA", "TX"}

\* STATE_TAX_DATA[code]; amounts in cents, rates in 1/10000. Of the row IL,
\* the state the pipeline meets, the single-filer fields it reads; of the row
\* CA all four bracket tables; the row TX of a state without income tax
STATE_TAX_DATA(code) ==
  CASE code = "IL" ->
     [hasIncomeTax |-> TRUE,
      brackets |-> [single |-> << [min |-> 0, max |-> Infinity, rate |-> 495] >>],
      standardDeduction |-> [single |-> 242500],
      personalExemption |-> 277500]
    [] code = "CA" ->
     [hasIncomeTax |-> TRUE,
      brackets |->
        [single |->
           << [min |-> 0, max |-> 1009900, rate |-> 100],
              [min |-> 1010000, max |-> 2394200, rate |-> 200],
              [min |-> 2394300, max |-> 3778800, rate |-> 400],
              [min |-> 3778900, max |-> 5245500, rate |-> 600],
              [min |-> 5245600, max |-> 6629500, rate |-> 800],
              [min |-> 6629600, max |-> 33863900, rate |-> 930],
              [min |-> 33864000, max |-> 40636400, rate |-> 1030],
              [min |-> 40636500, max |-> 67727800, rate |-> 1130],
              [min |-> 67727900, max |-> Infinity, rate |-> 1230] >>,
         marriedfilingjointly |->
           << [min |-> 0, max |-> 2019800, rate |-> 100],
              [min |-> 2019900, max |-> 4788400, rate |-> 200],
              [min |-> 4788500, max |-> 7557600, rate |-> 400],
              [min |-> 7557700, max |-> 10491000, rate |-> 600],
              [min |-> 10491100, max |-> 13259000, rate |-> 800],
              [min |-> 13259100, max |-> 67727800, rate |-> 930],
              [min |-> 67727900, max |-> 81272800, rate |-> 1030],
              [min |-> 81272900, max |-> 135455600, rate |-> 1130],
              [min |-> 135455700, max |-> Infinity, rate |-> 1230] >>,
         marriedfilingseparately |->
           << [min |-> 0, max |-> 1009900, rate |-> 100],
              [min |-> 1010000, max |-> 2394200, rate |-> 200],
              [min |-> 2394300, max |-> 3778800, rate |-> 400],
              [min |-> 3778900, max |-> 5245500, rate |-> 600],
              [min |-> 5245600, max |-> 6629500, rate |-> 800],
              [min |-> 6629600, max |-> 33863900, rate |-> 930],
              [min |-> 33864000, max |-> 40636400, rate |-> 1030],
              [min |-> 40636500, max |-> 67727800, rate |-> 1130],
              [min |-> 67727900, max |-> Infinity, rate |-> 1230] >>,
         headofhousehold |->
           << [min |-> 0, max |-> 2021200, rate |-> 100],
              [min |-> 2021300, max |-> 4788700, rate |-> 200],
              [min |-> 4788800, max |-> 6121400, rate |-> 400],
              [min |-> 6121500, max |-> 7576800, rate |-> 600],
              [min |-> 7576900, max |-> 9056300, rate |-> 800],
              [min |-> 9056400, max |-> 46054700, rate |-> 930],
              [min |-> 46054800, max |-> 55265800, rate |-> 1030],
              [min |-> 55265900, max |-> 92109500, rate |-> 1130],
              [min |-> 92109600, max |-> Infinity, rate |-> 1230] >>],
      standardDeduction |->
        [single |-> 520200,
         marriedFilingJointly |-> 1040400,
         marriedFilingSeparately |-> 520200,
         headOfHousehold |-> 1040400],
      personalExemption |-> 0]
    [] OTHER ->
     [hasIncomeTax |-> FALSE,
      brackets |->
        [key \in {} |-> << >>],
      standardDeduction |->
        [single |-> 0,
         marriedFilingJointly |-> 0,
         marriedFilingSeparately |-> 0,
         headOfHousehold |-> 0],
      personalExemption |-> 0]

\* stateCode?.toUpperCase(), on the codes met here
toUpperCase(stateCode) ==
  CASE stateCode = "il" -> "IL"
    [] stateCode = "zz" -> "ZZ"
    [] OTHER -> stateCode

getStateInfo(stateCode) ==
  IF toUpperCase(stateCode) \in StateCodes
  THEN STATE_TAX_DATA(toUpperCase(stateCode)) ELSE None

\* a call that ends by `throw new Error(message)` yields this
Thrown(message) == [thrown |-> message]
IsThrown(result) == "thrown" \in DOMAIN result

RECURSIVE BracketTax(_, _, _)
\* the loop over the brackets: stops at the first bracket with taxableIncome <= min
BracketTax(brackets, i, taxableIncome) ==
  IF i > Len(brackets) \/ taxableIncome <= brackets[i].min THEN 0
  ELSE MulRate(Min(taxableIncome, brackets[i].max) - brackets[i].min, brackets[i].rate)
       + BracketTax(brackets, i + 1, taxableIncome)

calculateStateTaxLiability(taxableIncome, filingStatus, stateCode) ==
  LET stateInfo == getStateInfo(stateCode)
      key == BracketKey(filingStatus)
  IN IF stateInfo = None \/ ~stateInfo.hasIncomeTax THEN 0
     ELSE IF key \notin DOMAIN stateInfo.brackets THEN 0
     ELSE BracketTax(stateInfo.brackets[key], 1, taxableIncome)

getStateStandardDeduction(filingStatus, stateCode) ==
  LET stateInfo == getStateInfo(stateCode)
  IN IF stateInfo = None \/ ~stateInfo.hasIncomeTax THEN 0
     ELSE stateInfo.standardDeduction.single

getStatePersonalExemption(stateCode) ==
  LET stateInfo == getStateInfo(stateCode)
  IN IF stateInfo = None THEN 0 ELSE stateInfo.personalExemption

\* stateItemizedDeductions = 0 and no dependents in this fixture
calculateStateTax(agi, filingStatus, stateCode) ==
  LET std == getStateStandardDeduction(filingStatus, stateCode)
      stateDeduction == Max(std, 0)
      personalExemptionTotal == getStatePersonalExemption(stateCode) * (1 + 0)
      taxable == Max(0, agi - stateDeduction - personalExemptionTotal)
  IN IF getStateInfo(stateCode) = None THEN Thrown("Unsupported state")
     ELSE [stateStandardDeduction |-> std,
           stateTaxableIncome |-> taxable,
           stateTaxLiability |->
             calculateStateTaxLiability(taxable, filingStatus, stateCode)]

\* a throw of calculateStateTax goes through
calculateCombinedTax(fed, stateCode) ==
  LET stateTax == calculateStateTax(fed.adjustedGrossIncome, FilingStatus, stateCode)
      total == fed.taxLiability + stateTax.stateTaxLiability
      finalTax == total - 0 - fed.totalWithholdings
  IN IF IsThrown(stateTax) THEN stateTax
     ELSE [stateTax |-> stateTax,
           finalTax |-> finalTax,
           refundAmount |-> IF finalTax < 0 THEN 0 - finalTax ELSE 0,
           amountOwed |-> IF finalTax > 0 THEN finalTax ELSE 0]

\* no itemized deductions and no dependents in this fixture: the standard
\* deduction is the recommended method, taxSavings is what it saves
generateTaxOptimizationSuggestions(adjustedGrossIncome) ==
  LET taxSavings == calculateTaxLiability(adjustedGrossIncome)
                      - calculateTaxLiability(Max(0, adjustedGrossIncome - getStandardDeduction))
  IN (IF taxSavings > 0 THEN <<"The standard deduction saves you">>
      ELSE <<"Both deduction methods result in the same tax liability">>)
     \o (IF adjustedGrossIncome > 100000 * 100
         THEN <<"Consider maximizing retirement contributions">> ELSE <<>>)
     \o (IF adjustedGrossIncome < 50000 * 100
         THEN <<"Look into the Earned Income Tax Credit">> ELSE <<>>)

\* the basic result with the recommended (standard) deduction, finalTax after
\* credits (none here) and the suggestions
calculateEnhancedTaxReturn(totalIncome, totalWithholdings) ==
  LET basicResult == calculateTaxReturn(totalIncome, totalWithholdings)
  IN basicResult
       @@ [finalTax |-> Max(0, basicResult.taxLiability - 0),
           taxOptimizationSuggestions |->
             generateTaxOptimizationSuggestions(basicResult.adjustedGrossIncome)]

\* IL has an income tax, no itemized state deductions in this fixture
generateStateTaxOptimizationSuggestions(federalSuggestions, stateTax, agi) ==
  federalSuggestions
    \o (IF stateTax.stateTaxLiability > 0 THEN <<"state tax">> ELSE <<>>)
    \o (IF stateTax.stateTaxLiability > 0 /\ stateTax.stateTaxLiability * 100 > 5 * agi
        THEN <<"relatively high state taxes">> ELSE <<>>)
    \o (IF stateTax.stateStandardDeduction # getStandardDeduction
        THEN <<"different deduction amounts than federal">> ELSE <<>>)

StateFailureNote(stateCode) ==
  "State tax calculation failed for " \o stateCode \o ". Showing federal taxes only."

FederalOnlyFallbackWithoutNote(federalResult, stateCode) ==
  federalResult @@ [stateTax |-> None]

\* the catch block: the federal result with one more suggestion
FederalOnlyFallback(federalResult, stateCode) ==
  [federalResult EXCEPT
     !.taxOptimizationSuggestions = Append(@, StateFailureNote(stateCode))]
    @@ [stateTax |-> None]

\* the figures of the result that the route handlers persist, finalTax and
\* the suggestions
calculateEnhancedTaxReturnWithState(totalIncome, totalWithholdings, stateCode) ==
  LET federalResult == calculateEnhancedTaxReturn(totalIncome, totalWithholdings)
  IN IF stateCode = Null
     THEN federalResult @@ [stateTax |-> None]
     ELSE LET combinedTaxResult == calculateCombinedTax(federalResult, stateCode)
          IN IF IsThrown(combinedTaxResult)
             THEN FederalOnlyFallback(federalResult, stateCode)
             ELSE [federalResult EXCEPT
                     !.finalTax = combinedTaxResult.finalTax,
                     !.refundAmount = combinedTaxResult.refundAmount,
                     !.amountOwed = combinedTaxResult.amountOwed,
                     !.taxOptimizationSuggestions =
                        generateStateTaxOptimizationSuggestions(
                          @, combinedTaxResult.stateTax,
                          federalResult.adjustedGrossIncome)]
                    @@ [stateTax |-> combinedTaxResult.stateTax]

(* ---------------------------------------------------------------------- *)
(* Persisted state                                                        *)
(* ---------------------------------------------------------------------- *)
InitialOrphanedEntries(k) ==
  {[id |-> i, documentId |-> Null, amount |-> OrphanedAmount,
    federalTaxWithheld |-> 0] : i \in 1..k}

InitTaxReturn ==
  [totalIncome |-> 0, totalWithholdings |-> 0, adjustedGrossIncome |-> 0,
   taxableIncome |-> 0, taxLiability |-> 0, refundAmount |-> 0, amountOwed |-> 0,
   stateTaxLiability |-> 0, stateStandardDeduction |-> 0, stateTaxableIncome |-> 0,
   detectedState |-> Null]

\* a request that has not arrived; the fields after pc are the local
\* variables of the handlers
InitReq ==
  [pc |-> "new", docId |-> Null, document |-> None, extractedData |-> None,
   finalDocumentType |-> Null, detectedStateCode |-> Null, totalIncome |-> 0,
   orphaned |-> 0, taxCalculationResult |-> None, thrown |-> Null,
   response |-> None]

\* no status stream requested yet; the fields after pc are the variables of
\* the stream's closure (pollCount, the pending timer, the controller) and,
\* for the properties, what the last step emitted and how many polls in a row
\* have failed
InitStream ==
  [pc |-> "idle", response |-> 0, pollCount |-> 0, delay |-> 0,
   closed |-> FALSE, cancelled |-> FALSE, emitted |-> <<>>, errorsInARow |-> 0,
   observed |-> Null]

\* the entry of a selected file before "process all" is clicked; the fields
\* after realTimeUpdates are the EventSource, the promise returned by
\* startRealTimeMonitoring, the pending setTimeout, the process request, and
\* the handler that ran last
InitRtm ==
  [pc |-> "idle", status |-> "pending", progress |-> 0,
   message |-> "Waiting to process...", realTimeUpdates |-> TRUE,
   extractedData |-> FALSE, channel |-> "none", promise |-> "none",
   timer |-> FALSE, processFetch |-> "none", last |-> Null]

\* the entry of a selected file in DocumentProcessor; duplicateWarning is the
\* dialog's state; the fields from pollPc on are the variables of
\* pollDocumentStatus, the last response of its fetch and the kind of the
\* error caught by processSingleDocument
InitDp ==
  [pc |-> "idle", status |-> "pending", progress |-> 0, message |-> Null,
   document |-> Null, extractedData |-> Null,
   duplicateWarning |-> FALSE, action |-> Null,
   pollPc |-> "none", pollDocumentId |-> Null,
   attempts |-> 0, consecutiveErrors |-> 0, delay |-> 0,
   response |-> Null, caught |-> Null, batch |-> "idle"]

InitCall == [fn |-> Null, input |-> None, result |-> None]

Init ==
  /\ docs = [d \in DocIds |->
               [processingStatus |-> "PENDING", documentType |-> "W2",
                extractedData |-> None]]
  /\ \E k \in 0..MaxOrphanedEntries : entries = InitialOrphanedEntries(k)
  /\ taxReturn = InitTaxReturn
  /\ req = [r \in ReqIds |-> InitReq]
  /\ stream = InitStream
  /\ rtm = InitRtm
  /\ dp = InitDp
  /\ call = InitCall

\* the foreign key IncomeEntry.documentId -> Document.id (ON DELETE CASCADE)
ForeignKeyHolds(es, ds) ==
  \A e \in es : e.documentId = Null \/ e.documentId \in DOMAIN ds

(* ---------------------------------------------------------------------- *)
(* POST /api/documents/[id]/process                                       *)
(* ---------------------------------------------------------------------- *)
\* what the OCR service may return for an uploaded file
\* an extracted field: absent, a number, or a currency string ("$30,000.00")
\* given with the number its cleaned text parses to
Absent == [kind |-> "null"]
Number(n) == [kind |-> "number", value |-> n]
Currency(n) == [kind |-> "string", value |-> n]

OcrOutputs ==
  { [wages |-> Currency(3000000), federalTaxWithheld |-> Currency(300000),
     interestIncome |-> Absent, correctedDocumentType |-> Null],
    [wages |-> Absent, federalTaxWithheld |-> Absent,
     interestIncome |-> Absent, correctedDocumentType |-> Null],
    [wages |-> Absent, federalTaxWithheld |-> Absent,
     interestIncome |-> Number(100000), correctedDocumentType |-> "FORM_1099_INT"] }

\* the state codes detectStateFromDocument may resolve to
DetectableStates == {"IL"}

parseAmount(value) == IF value.kind = "null" THEN 0 ELSE value.value

\* the look-up without the owner filter
FindDocumentOfAnyUser(d, user) ==
  IF d \in DOMAIN docs THEN docs[d] ELSE None

\* prisma.document.findFirst({ where: { id, taxReturn: { userId } } })
FindDocument(d, user) ==
  IF d \in DOMAIN docs /\ user = Owner THEN docs[d] ELSE None

\* the validation without the COMPLETED short-circuit
StatusValidationWithoutCache(status) ==
  IF status = "PROCESSING" THEN "conflict" ELSE "proceed"

\* what the handler does for a document in this status
StatusValidation(status) ==
  IF status = "COMPLETED" THEN "cached"
  ELSE IF status = "PROCESSING" THEN "conflict"
  ELSE "proceed"

\* the body returned for a document that is already COMPLETED
CachedResponse(d, document, tr) ==
  [status |-> 200, documentId |-> d,
   extractedData |-> document.extractedData,
   processingStatus |-> document.processingStatus,
   documentType |-> document.documentType,
   detectedState |-> tr.detectedState,
   taxCalculations |->
     [totalIncome |-> tr.totalIncome,
      adjustedGrossIncome |-> tr.adjustedGrossIncome,
      taxableIncome |-> tr.taxableIncome,
      taxLiability |-> tr.taxLiability,
      stateTaxLiability |-> tr.stateTaxLiability,
      refundAmount |-> tr.refundAmount,
      amountOwed |-> tr.amountOwed]]

ErrorResponse(code) == [status |-> code]

\* the handler has returned: its local variables are gone
Returned(response) == [InitReq EXCEPT !.pc = "done", !.response = response]

\* the document as the handler holds it after the look-up
Snapshot(document, tr) ==
  [documentType |-> document.documentType,
   processingStatus |-> document.processingStatus,
   extractedData |-> document.extractedData,
   totalWithholdings |-> tr.totalWithholdings]

\* a request failing during the look-ups of steps 1 and 2 (inside the try)
ProcessLookupThrows(p, d) ==
  /\ req[p].pc = "new"
  /\ req' = [req EXCEPT ![p].pc = "fatal", ![p].docId = d, ![p].thrown = "lookup"]
  /\ UNCHANGED <<docs, entries, taxReturn>>
  /\ UNCHANGED <<stream, rtm, dp, call>>

\* steps 1 to 3: session, user, document look-up, status validation
ProcessBegin(p, s, d) ==
  /\ req[p].pc = "new"
  /\ LET document == IF s \in {"none", "ghost"} THEN None ELSE FindDocument(d, s)
     IN req' = [req EXCEPT ![p] =
          IF s = "none" THEN Returned(ErrorResponse(401))
          ELSE IF document = None THEN Returned(ErrorResponse(404))
          ELSE CASE StatusValidation(document.processingStatus) = "cached" ->
                      Returned(CachedResponse(d, document, taxReturn))
                 [] StatusValidation(document.processingStatus) = "conflict" ->
                      Returned(ErrorResponse(409))
                 [] OTHER ->
                      [InitReq EXCEPT !.pc = "mark", !.docId = d,
                                       !.document = Snapshot(document, taxReturn)]]
  /\ UNCHANGED <<docs, entries, taxReturn>>
  /\ UNCHANGED <<stream, rtm, dp, call>>

\* step 4: prisma.document.update({ processingStatus: 'PROCESSING' })
MarkProcessing(p) ==
  /\ req[p].pc = "mark"
  /\ LET d == req[p].docId
     IN IF d \in DOMAIN docs
        THEN /\ docs' = [docs EXCEPT ![d].processingStatus = "PROCESSING"]
             /\ req' = [req EXCEPT ![p].pc = "extract"]
        ELSE /\ req' = [req EXCEPT ![p].pc = "fatal", ![p].thrown = "document.update"]
             /\ UNCHANGED docs
  /\ UNCHANGED <<entries, taxReturn>>
  /\ UNCHANGED <<stream, rtm, dp, call>>

\* the extraction with its failure caught like that of a later stage
ExtractCaught(p) ==
  /\ req[p].pc = "extract"
  /\ \/ \E out \in OcrOutputs :
          req' = [req EXCEPT
            ![p].extractedData = out,
            ![p].finalDocumentType = req[p].document.documentType,
            ![p].pc = IF out.correctedDocumentType # Null THEN "correct" ELSE "detect"]
     \/ req' = [req EXCEPT ![p].pc = "detect", ![p].thrown = "extraction",
                   ![p].finalDocumentType = req[p].document.documentType]
  /\ UNCHANGED <<docs, entries, taxReturn>>
  /\ UNCHANGED <<stream, rtm, dp, call>>

\* step 7: azureService.extractDataFromDocument returns or throws
Extract(p) ==
  /\ req[p].pc = "extract"
  /\ \/ \E out \in OcrOutputs :
          req' = [req EXCEPT
            ![p].extractedData = out,
            ![p].finalDocumentType = req[p].document.documentType,
            ![p].pc = IF out.correctedDocumentType # Null THEN "correct" ELSE "detect"]
     \/ req' = [req EXCEPT ![p].pc = "fatal", ![p].thrown = "extraction"]
  /\ UNCHANGED <<docs, entries, taxReturn>>
  /\ UNCHANGED <<stream, rtm, dp, call>>

\* step 8: the corrected document type overwrites the stored one
CorrectDocumentType(p) ==
  /\ req[p].pc = "correct"
  /\ LET d == req[p].docId
         corrected == req[p].extractedData.correctedDocumentType
     IN IF d \in DOMAIN docs
        THEN /\ docs' = [docs EXCEPT ![d].documentType = corrected]
             /\ req' = [req EXCEPT ![p].pc = "detect",
                           ![p].finalDocumentType = corrected]
        ELSE /\ req' = [req EXCEPT ![p].pc = "fatal", ![p].thrown = "document.update"]
             /\ UNCHANGED docs
  /\ UNCHANGED <<entries, taxReturn>>
  /\ UNCHANGED <<stream, rtm, dp, call>>

\* step 9: detectStateFromDocument finds a state, finds none, or throws;
\* detectedStateCode stays null in the last two cases
DetectState(p) ==
  /\ req[p].pc = "detect"
  /\ \/ \E st \in DetectableStates :
          req' = [req EXCEPT ![p].detectedStateCode = st, ![p].pc = "duplicates"]
     \/ req' = [req EXCEPT ![p].pc = "duplicates"]
  /\ UNCHANGED <<docs, entries, taxReturn>>
  /\ UNCHANGED <<stream, rtm, dp, call>>

\* step 10: DuplicateDetectionService.checkForDuplicates returns or throws;
\* its verdict goes to the response only
CheckDuplicates(p) ==
  /\ req[p].pc = "duplicates"
  /\ req' = [req EXCEPT ![p].pc = "map"]
  /\ UNCHANGED <<docs, entries, taxReturn>>
  /\ UNCHANGED <<stream, rtm, dp, call>>

\* the id of the row a request creates
EntryId(p) == MaxOrphanedEntries + p

\* the income entry the mapping creates for this document, if any
IncomeEntryFor(p, d, documentType, data) ==
  IF documentType = "W2"
  THEN IF parseAmount(data.wages) > 0
       THEN {[id |-> EntryId(p), documentId |-> d, amount |-> parseAmount(data.wages),
              federalTaxWithheld |-> parseAmount(data.federalTaxWithheld)]}
       ELSE {}
  ELSE IF documentType = "FORM_1099_INT"
  THEN IF parseAmount(data.interestIncome) > 0
       THEN {[id |-> EntryId(p), documentId |-> d,
              amount |-> parseAmount(data.interestIncome),
              federalTaxWithheld |-> 0]}
       ELSE {}
  ELSE {}

\* the mapping stage with its failure escaping to the outer catch
MapForm1040Uncaught(p) ==
  /\ req[p].pc = "map"
  /\ LET d == req[p].docId
         new == IncomeEntryFor(p, d, req[p].finalDocumentType, req[p].extractedData)
     IN \/ /\ d \in DOMAIN docs
           /\ entries' = entries \cup new
           /\ req' = [req EXCEPT ![p].pc = "readValid"]
        \/ /\ new # {}
           /\ UNCHANGED entries
           /\ req' = [req EXCEPT ![p].pc = "fatal", ![p].thrown = "mapping"]
  /\ UNCHANGED <<docs, taxReturn>>
  /\ UNCHANGED <<stream, rtm, dp, call>>

\* step 11: Form 1040 mapping; a throw (of the mapper, or of the create, as
\* for a document deleted meanwhile) is caught and the pipeline continues
MapForm1040(p) ==
  /\ req[p].pc = "map"
  /\ LET d == req[p].docId
         new == IncomeEntryFor(p, d, req[p].finalDocumentType, req[p].extractedData)
     IN \/ /\ d \in DOMAIN docs
           /\ entries' = entries \cup new
        \/ /\ new # {}
           /\ UNCHANGED entries
  /\ req' = [req EXCEPT ![p].pc = "readValid"]
  /\ UNCHANGED <<docs, taxReturn>>
  /\ UNCHANGED <<stream, rtm, dp, call>>

\* entries of the tax return whose document reference is set and resolves
ValidIncomeEntries(es, ds) ==
  {e \in es : e.documentId # Null /\ e.documentId \in DOMAIN ds}

\* entries of the tax return with documentId = null
OrphanedEntries(es) == {e \in es : e.documentId = Null}

\* step 12, first query; a throw anywhere in the stage is caught and the
\* pipeline continues without a calculation result
ReadValidEntries(p) ==
  /\ req[p].pc = "readValid"
  /\ \/ req' = [req EXCEPT ![p].pc = "readOrphans",
                   ![p].totalIncome = SumOf(ValidIncomeEntries(entries, docs), "amount")]
     \/ req' = [req EXCEPT ![p].pc = "persistDocument"]
  /\ UNCHANGED <<docs, entries, taxReturn>>
  /\ UNCHANGED <<stream, rtm, dp, call>>

\* step 12, second query: the orphaned entries
ReadOrphanedEntries(p) ==
  /\ req[p].pc = "readOrphans"
  /\ LET n == Cardinality(OrphanedEntries(entries))
     IN req' = [req EXCEPT ![p].orphaned = n,
                   ![p].pc = IF n > 0 THEN "deleteOrphans" ELSE "calculate"]
  /\ UNCHANGED <<docs, entries, taxReturn>>
  /\ UNCHANGED <<stream, rtm, dp, call>>

\* step 12: deleteMany({ taxReturnId, documentId: null })
DeleteOrphanedEntries(p) ==
  /\ req[p].pc = "deleteOrphans"
  /\ entries' = entries \ OrphanedEntries(entries)
  /\ req' = [req EXCEPT ![p].pc = "calculate"]
  /\ UNCHANGED <<docs, taxReturn>>
  /\ UNCHANGED <<stream, rtm, dp, call>>

\* the input handed to the calculator
TaxData(totalIncome, document, detectedStateCode) ==
  [totalIncome |-> totalIncome,
   totalWithholdings |-> document.totalWithholdings,
   stateCode |-> detectedStateCode]

\* step 12: dependents and calculateEnhancedTaxReturnWithState
Calculate(p) ==
  /\ req[p].pc = "calculate"
  /\ \/ LET taxData == TaxData(req[p].totalIncome, req[p].document,
                               req[p].detectedStateCode)
        IN req' = [req EXCEPT ![p].pc = "persistDocument",
                      ![p].taxCalculationResult =
                         calculateEnhancedTaxReturnWithState(
                           taxData.totalIncome, taxData.totalWithholdings,
                           taxData.stateCode)]
     \/ req' = [req EXCEPT ![p].pc = "persistDocument"]
  /\ UNCHANGED <<docs, entries, taxReturn>>
  /\ UNCHANGED <<stream, rtm, dp, call>>

\* step 13, first write: the document result
PersistDocument(p) ==
  /\ req[p].pc = "persistDocument"
  /\ LET d == req[p].docId
     IN \/ /\ d \in DOMAIN docs
           /\ docs' = [docs EXCEPT ![d] =
                         [processingStatus |-> "COMPLETED",
                          documentType |-> req[p].finalDocumentType,
                          extractedData |-> req[p].extractedData]]
           /\ req' = [req EXCEPT ![p].pc = "persistTaxReturn"]
        \/ /\ req' = [req EXCEPT ![p].pc = "fatal", ![p].thrown = "document.update"]
           /\ UNCHANGED docs
  /\ UNCHANGED <<entries, taxReturn>>
  /\ UNCHANGED <<stream, rtm, dp, call>>

\* update data that carry the detection result of the run even when it is null
TaxReturnUpdateDataWithNullState(tr, totalIncome, calc, detectedStateCode) ==
  [tr EXCEPT !.detectedState = detectedStateCode]

\* the data of prisma.taxReturn.update: the calculation fields when the
\* calculation succeeded, the state fields when this run detected a state
TaxReturnUpdateData(tr, totalIncome, calc, detectedStateCode) ==
  LET withCalc ==
        IF calc = None THEN tr
        ELSE [tr EXCEPT
               !.totalIncome = totalIncome,
               !.adjustedGrossIncome = calc.adjustedGrossIncome,
               !.taxableIncome = calc.taxableIncome,
               !.taxLiability = calc.taxLiability,
               !.totalWithholdings = calc.totalWithholdings,
               !.refundAmount = calc.refundAmount,
               !.amountOwed = calc.amountOwed,
               !.stateTaxLiability =
                  IF calc.stateTax = None THEN 0 ELSE calc.stateTax.stateTaxLiability,
               !.stateStandardDeduction =
                  IF calc.stateTax = None THEN 0
                  ELSE calc.stateTax.stateStandardDeduction,
               !.stateTaxableIncome =
                  IF calc.stateTax = None THEN 0 ELSE calc.stateTax.stateTaxableIncome]
  IN IF detectedStateCode # Null
     THEN [withCalc EXCEPT !.detectedState = detectedStateCode]
     ELSE withCalc

\* the body returned after a successful run, as far as the tables decide it
ProcessedResponse(d, calc) ==
  [status |-> 200, documentId |-> d, processingStatus |-> "COMPLETED",
   calculated |-> calc # None]

\* step 13, second write: the tax return
PersistTaxReturn(p) ==
  /\ req[p].pc = "persistTaxReturn"
  /\ \/ /\ taxReturn' = TaxReturnUpdateData(taxReturn, req[p].totalIncome,
                          req[p].taxCalculationResult, req[p].detectedStateCode)
        /\ req' = [req EXCEPT ![p] =
                      Returned(ProcessedResponse(req[p].docId,
                                                 req[p].taxCalculationResult))]
     \/ /\ req' = [req EXCEPT ![p].pc = "fatal", ![p].thrown = "taxReturn.update"]
        /\ UNCHANGED taxReturn
  /\ UNCHANGED <<docs, entries>>
  /\ UNCHANGED <<stream, rtm, dp, call>>

\* the outer catch: best-effort FAILED mark of params.id (a failure of that
\* write is swallowed), then the 500 response
MarkFailed(p) ==
  /\ req[p].pc = "fatal"
  /\ LET d == req[p].docId
     IN \/ /\ d \in DOMAIN docs
           /\ docs' = [docs EXCEPT ![d].processingStatus = "FAILED"]
        \/ UNCHANGED docs
  /\ req' = [req EXCEPT ![p] = Returned(ErrorResponse(500))]
  /\ UNCHANGED <<entries, taxReturn>>
  /\ UNCHANGED <<stream, rtm, dp, call>>

(* ---------------------------------------------------------------------- *)
(* DELETE /api/documents/[id]                                             *)
(* ---------------------------------------------------------------------- *)
\* session, user and document look-up with the ownership check
DeleteBegin(x, s, d) ==
  /\ req[x].pc = "new"
  /\ req' = [req EXCEPT ![x] =
       IF s = "none" THEN Returned(ErrorResponse(401))
       ELSE IF s = "ghost" \/ d \notin DOMAIN docs \/ s # Owner
       THEN Returned(ErrorResponse(404))
       ELSE [InitReq EXCEPT !.pc = "deleteTransaction", !.docId = d]]
  /\ UNCHANGED <<docs, entries, taxReturn>>
  /\ UNCHANGED <<stream, rtm, dp, call>>

\* the recalculation over every entry of the tax return
RemainingIncomeEntriesUnfiltered(es) == es

\* step 4 of the transaction: the entries the totals are recalculated from
RemainingIncomeEntries(es) == {e \in es : e.documentId # Null}

\* the tax return after the recalculation of the transaction
DeleteTaxReturnUpdate(tr, remaining) ==
  [tr EXCEPT
    !.totalIncome = SumOf(remaining, "amount"),
    !.totalWithholdings = SumOf(remaining, "federalTaxWithheld"),
    !.adjustedGrossIncome = SumOf(remaining, "amount"),
    !.taxableIncome = 0,
    !.taxLiability = 0,
    !.stateTaxLiability = 0,
    !.refundAmount = 0,
    !.amountOwed = 0]

\* steps 1 to 3 of the transaction: the entries left once those of the
\* document are deleted
EntriesWithout(es, d) == {e \in es : e.documentId # d}

DeletedResponse(d) == [status |-> 200, deleted |-> d]

\* prisma.$transaction: delete the entries of the document, the document,
\* recalculate the totals; a throw rolls everything back and answers 500
DeleteTransaction(x) ==
  /\ req[x].pc = "deleteTransaction"
  /\ LET d == req[x].docId
         kept == EntriesWithout(entries, d)
     IN \/ /\ d \in DOMAIN docs
           /\ entries' = kept
           /\ docs' = [k \in DOMAIN docs \ {d} |-> docs[k]]
           /\ taxReturn' = DeleteTaxReturnUpdate(taxReturn, RemainingIncomeEntries(kept))
           /\ req' = [req EXCEPT ![x] = Returned(DeletedResponse(d))]
        \/ /\ req' = [req EXCEPT ![x] = Returned(ErrorResponse(500))]
           /\ UNCHANGED <<docs, entries, taxReturn>>
  /\ UNCHANGED <<stream, rtm, dp, call>>

(* ---------------------------------------------------------------------- *)
(* POST cleanup of orphaned data                                          *)
(* ---------------------------------------------------------------------- *)
\* session, user and tax-return look-up (where: { id, userId }); the handler
\* keeps the tax return it read, of which the detected state is used later
CleanupBegin(c, s) ==
  /\ req[c].pc = "new"
  /\ req' = [req EXCEPT ![c] =
       IF s = "none" THEN Returned(ErrorResponse(401))
       ELSE IF s # Owner THEN Returned(ErrorResponse(404))
       ELSE [InitReq EXCEPT !.pc = "cleanupTransaction",
                            !.detectedStateCode = taxReturn.detectedState]]
  /\ UNCHANGED <<docs, entries, taxReturn>>
  /\ UNCHANGED <<stream, rtm, dp, call>>

\* steps 1 and 2 of the transaction: entries left after deleting the orphaned
\* ones and the ones whose document does not resolve
CleanedEntriesKeepingOrphans(es, ds) ==
  {e \in es : e.documentId = Null \/ e.documentId \in DOMAIN ds}

CleanedEntries(es, ds) ==
  LET step1 == es \ OrphanedEntries(es)
      invalidEntries == {e \in step1 : e.documentId \notin DOMAIN ds}
  IN step1 \ invalidEntries

\* step 5: the update data, with or without a calculation result
CleanupTaxReturnUpdate(tr, newTotalIncome, newTotalWithholdings, calc) ==
  LET base == [tr EXCEPT !.totalIncome = newTotalIncome,
                         !.totalWithholdings = newTotalWithholdings,
                         !.adjustedGrossIncome = newTotalIncome]
  IN IF calc # None
     THEN [base EXCEPT
            !.taxableIncome = calc.taxableIncome,
            !.taxLiability = calc.taxLiability,
            !.refundAmount = calc.refundAmount,
            !.amountOwed = calc.amountOwed,
            !.stateTaxLiability =
               IF calc.stateTax = None THEN 0 ELSE calc.stateTax.stateTaxLiability,
            !.stateStandardDeduction =
               IF calc.stateTax = None THEN 0 ELSE calc.stateTax.stateStandardDeduction,
            !.stateTaxableIncome =
               IF calc.stateTax = None THEN 0 ELSE calc.stateTax.stateTaxableIncome]
     ELSE [base EXCEPT !.taxableIncome = 0, !.taxLiability = 0,
                       !.stateTaxLiability = 0, !.refundAmount = 0, !.amountOwed = 0]

CleanupResponse == [status |-> 200, cleanup |-> TRUE]

\* prisma.$transaction: purge, recalculate, update; the calculation may throw
\* (caught inside), any other throw rolls back and answers 500
CleanupTransaction(c) ==
  /\ req[c].pc = "cleanupTransaction"
  /\ \/ \E calcThrows \in BOOLEAN :
          LET cleaned == CleanedEntries(entries, docs)
              validIncomeEntries == ValidIncomeEntries(cleaned, docs)
              newTotalIncome == SumOf(validIncomeEntries, "amount")
              newTotalWithholdings == SumOf(validIncomeEntries, "federalTaxWithheld")
              calc == IF calcThrows THEN None
                      ELSE calculateEnhancedTaxReturnWithState(
                             newTotalIncome, newTotalWithholdings,
                             req[c].detectedStateCode)
          IN /\ entries' = cleaned
             /\ taxReturn' = CleanupTaxReturnUpdate(taxReturn, newTotalIncome,
                                                    newTotalWithholdings, calc)
             /\ req' = [req EXCEPT ![c] = Returned(CleanupResponse)]
     \/ /\ req' = [req EXCEPT ![c] = Returned(ErrorResponse(500))]
        /\ UNCHANGED <<entries, taxReturn>>
  /\ UNCHANGED docs
  /\ UNCHANGED <<stream, rtm, dp, call>>

(* ---------------------------------------------------------------------- *)
(* GET /api/documents/[id]/status-stream                                  *)
(* ---------------------------------------------------------------------- *)
maxPolls == 300
\* the catch block retries while pollCount is below this
retryLimit == 10
\* setTimeout delays after a poll and after a failed poll
pollInterval == 2000
errorBackoff == 5000

\* failed polls in a row are counted up to this number
MaxErrorsCounted == 11

\* what prisma.document.findUnique does in a poll: it throws, finds no row,
\* or returns the row with this processingStatus
PollOutcomes == {"throws", "missing", "PENDING", "PROCESSING", "COMPLETED", "FAILED"}

ConnectedEvent(status) == [type |-> "connected", initialStatus |-> status]

\* updateData: the OCR text, the extracted data and the all-complete stages
\* are included for a COMPLETED document only
StatusUpdateEventWithoutData(status, n) ==
  [type |-> "status_update", status |-> status, pollCount |-> n,
   ocrText |-> FALSE, extractedData |-> FALSE,
   processingStages |->
     IF status = "PROCESSING" THEN "extraction in progress" ELSE "uploaded"]

StatusUpdateEvent(status, n) ==
  [type |-> "status_update", status |-> status, pollCount |-> n,
   ocrText |-> status = "COMPLETED",
   extractedData |-> status = "COMPLETED",
   processingStages |->
     CASE status = "COMPLETED" -> "all complete"
       [] status = "PROCESSING" -> "extraction in progress"
       [] OTHER -> "uploaded"]

CompletedEvent == [type |-> "completed"]
ErrorEvent(message) == [type |-> "error", message |-> message]
TimeoutEvent == [type |-> "timeout"]

\* controller.enqueue and controller.close throw a TypeError once the stream
\* is closed or cancelled
CanEnqueueAfterCancel(st) == ~st.closed

CanEnqueue(st) == ~st.closed /\ ~st.cancelled

\* the test that reschedules the poll of a document that is neither
\* COMPLETED nor FAILED, on the incremented pollCount
ContinuePollingAtLimit(n) == n <= maxPolls

ContinuePolling(n) == n < maxPolls

\* the catch block of pollDocument; when its own sendUpdate throws, the
\* promise of pollDocument rejects and nothing is rescheduled
CatchBlock(st) ==
  IF ~CanEnqueue(st)
  THEN [st EXCEPT !.pc = "stopped", !.emitted = <<>>]
  ELSE LET sent == [st EXCEPT
                      !.emitted = <<ErrorEvent("Error checking document status")>>,
                      !.errorsInARow = Min(st.errorsInARow + 1, MaxErrorsCounted)]
       IN IF st.pollCount < retryLimit
          THEN [sent EXCEPT !.pc = "scheduled", !.delay = errorBackoff]
          ELSE [sent EXCEPT !.pc = "stopped", !.closed = TRUE]

\* pollDocument from the return of its database read to its end
pollDocument(st, outcome) ==
  IF outcome = "throws" \/ ~CanEnqueue(st) THEN CatchBlock(st)
  ELSE LET read == [st EXCEPT !.errorsInARow = 0]
           n == st.pollCount + 1
       IN CASE outcome = "missing" ->
                 [read EXCEPT !.emitted = <<ErrorEvent("Document not found")>>,
                              !.closed = TRUE, !.pc = "stopped"]
            [] outcome = "COMPLETED" ->
                 [read EXCEPT !.emitted = <<StatusUpdateEvent(outcome, n), CompletedEvent>>,
                              !.closed = TRUE, !.pc = "stopped"]
            [] outcome = "FAILED" ->
                 [read EXCEPT !.emitted = <<ErrorEvent("Document processing failed")>>,
                              !.closed = TRUE, !.pc = "stopped"]
            [] OTHER ->
                 IF ContinuePolling(n)
                 THEN [read EXCEPT !.emitted = <<StatusUpdateEvent(outcome, n)>>,
                                   !.pollCount = n,
                                   !.pc = "scheduled", !.delay = pollInterval]
                 ELSE [read EXCEPT !.emitted = <<StatusUpdateEvent(outcome, n), TimeoutEvent>>,
                                   !.pollCount = n,
                                   !.closed = TRUE, !.pc = "stopped"]

\* the GET handler: session, user and document look-up, then the stream is
\* created: start() sends the connected event and calls pollDocument, which
\* runs up to its database read
StreamConnect(s, d) ==
  /\ stream.pc = "idle"
  /\ LET document == IF s \in {"none", "ghost"} THEN None ELSE FindDocument(d, s)
     IN stream' =
          IF s = "none" THEN [stream EXCEPT !.pc = "stopped", !.response = 401]
          ELSE IF document = None THEN [stream EXCEPT !.pc = "stopped", !.response = 404]
          ELSE [stream EXCEPT !.pc = "reading", !.response = 200,
                              !.emitted = <<ConnectedEvent(document.processingStatus)>>]
  /\ UNCHANGED <<docs, entries, taxReturn, req, rtm, dp, call>>

\* the database read of a poll returns and pollDocument runs to its end
PollReturns(outcome) ==
  /\ stream.pc = "reading"
  /\ stream' = [pollDocument(stream, outcome) EXCEPT !.observed = outcome]
  /\ UNCHANGED <<docs, entries, taxReturn, req, rtm, dp, call>>

\* the timer set by setTimeout(pollDocument, delay) fires: the next read starts
TimerFires ==
  /\ stream.pc = "scheduled"
  /\ stream' = [stream EXCEPT !.pc = "reading", !.delay = 0, !.emitted = <<>>,
                              !.observed = Null]
  /\ UNCHANGED <<docs, entries, taxReturn, req, rtm, dp, call>>

\* the client closes the connection: cancel() only logs
StreamCancel ==
  /\ stream.pc \in {"reading", "scheduled"}
  /\ ~stream.cancelled
  /\ stream' = [stream EXCEPT !.cancelled = TRUE, !.emitted = <<>>]
  /\ UNCHANGED <<docs, entries, taxReturn, req, rtm, dp, call>>

(* ---------------------------------------------------------------------- *)
(* Specifications                                                         *)
(* ---------------------------------------------------------------------- *)
\* requests are numbered in their order of arrival
Arrived(r) == \A q \in ReqIds : q < r => req[q].pc # "new"

\* no request is between its first and its last step
Quiet == \A r \in ReqIds : req[r].pc \in {"new", "done"}

\* request r arrives: the first step of one of the three handlers
Arrive(r) ==
  /\ Arrived(r)
  /\ \/ \E s \in Sessions, d \in DocIds : ProcessBegin(r, s, d)
     \/ \E d \in DocIds : ProcessLookupThrows(r, d)
     \/ \E s \in Sessions, d \in DocIds : DeleteBegin(r, s, d)
     \/ \E s \in Sessions : CleanupBegin(r, s)

\* a later step of a handler
Step ==
  \/ \E p \in ReqIds : MarkProcessing(p)
  \/ \E p \in ReqIds : Extract(p)
  \/ \E p \in ReqIds : CorrectDocumentType(p)
  \/ \E p \in ReqIds : DetectState(p)
  \/ \E p \in ReqIds : CheckDuplicates(p)
  \/ \E p \in ReqIds : MapForm1040(p)
  \/ \E p \in ReqIds : ReadValidEntries(p)
  \/ \E p \in ReqIds : ReadOrphanedEntries(p)
  \/ \E p \in ReqIds : DeleteOrphanedEntries(p)
  \/ \E p \in ReqIds : Calculate(p)
  \/ \E p \in ReqIds : PersistDocument(p)
  \/ \E p \in ReqIds : PersistTaxReturn(p)
  \/ \E p \in ReqIds : MarkFailed(p)
  \/ \E x \in ReqIds : DeleteTransaction(x)
  \/ \E c \in ReqIds : CleanupTransaction(c)

\* two requests of any kind, arriving at any time: their handlers interleave
\* between their awaits
Next == (\E r \in ConcurrentIds : Arrive(r)) \/ Step

Spec == Init /\ [][Next]_vars

\* three requests of any kind, one at a time: a request arrives only when
\* none is in flight
SerialNext == (Quiet /\ \E r \in ReqIds : Arrive(r)) \/ Step

SerialSpec == Init /\ [][SerialNext]_vars

\* one status stream, with every outcome of every poll
StreamNext ==
  \/ \E s \in Sessions, d \in DocIds : StreamConnect(s, d)
  \/ \E outcome \in PollOutcomes : PollReturns(outcome)
  \/ TimerFires
  \/ StreamCancel

StreamSpec == Init /\ [][StreamNext]_vars

\* timers fire and database reads return
FairStreamSpec ==
  StreamSpec /\ WF_vars(TimerFires) /\ WF_vars(\E outcome \in PollOutcomes : PollReturns(outcome))

(* ---------------------------------------------------------------------- *)
(* Properties                                                             *)
(* ---------------------------------------------------------------------- *)
\* positions of a process request between its PROCESSING mark and its last
\* write
PipelinePcs ==
  {"extract", "correct", "detect", "duplicates", "map", "readValid",
   "readOrphans", "deleteOrphans", "calculate", "persistDocument",
   "persistTaxReturn"}

NoOrphans(es, ds) ==
  \A e \in es : e.documentId # Null /\ e.documentId \in DOMAIN ds

\* request p returns the success body of a pipeline run in this step
RunCompletes(p) ==
  /\ req[p].pc = "persistTaxReturn"
  /\ req'[p].pc = "done"
  /\ req'[p].response.status = 200

\* C1: of two process requests for the same document at most one executes
\* the pipeline: never are two requests past the PROCESSING mark of the same
\* document at the same time.
C1_ProcessingEnteredOnce ==
  \A p, q \in ReqIds :
    (p # q /\ req[p].pc \in PipelinePcs /\ req[q].pc \in PipelinePcs)
      => req[p].docId # req[q].docId

\* C2: when a pipeline run, alone on the tax return, ends with the document
\* COMPLETED, the persisted totalIncome is the sum of amount over the entries
\* whose document exists.
C2_TotalIncomeIsSumOfValidEntries ==
  [][\A p \in ReqIds :
       RunCompletes(p) =>
         taxReturn'.totalIncome =
           SumOf(ValidIncomeEntries(entries', docs'), "amount")]_vars

\* C3: when a pipeline run ends with the document COMPLETED, the persisted
\* totalWithholdings is the sum of federalTaxWithheld over the valid entries,
\* the one just created included.
C3_TotalWithholdingsIsSumOfValidEntries ==
  [][\A p \in ReqIds :
       (RunCompletes(p) /\ req'[p].response.calculated) =>
         taxReturn'.totalWithholdings =
           SumOf(ValidIncomeEntries(entries', docs'), "federalTaxWithheld")]_vars

\* C4: after the orphan purge of a processing pass, after a successful DELETE
\* and after a successful cleanup, no entry has a null documentId or one that
\* is absent from Document.
C4_NoOrphansAfterRecompute ==
  [][\A r \in ReqIds :
       (\/ req[r].pc \in {"readOrphans", "deleteOrphans"} /\ req'[r].pc = "calculate"
        \/ req[r].pc = "deleteTransaction"
             /\ req'[r].response = [status |-> 200, deleted |-> req[r].docId]
        \/ req[r].pc = "cleanupTransaction"
             /\ req'[r].response = [status |-> 200, cleanup |-> TRUE])
       => NoOrphans(entries', docs')]_vars

\* C5: a successful DELETE leaves no entry of the document, totals equal to
\* the sums over the remaining valid entries, and the five calculated fields
\* at 0.
C5_DeleteRecalculatesTotals ==
  [][\A x \in ReqIds :
       (req[x].pc = "deleteTransaction"
          /\ req'[x].response = [status |-> 200, deleted |-> req[x].docId])
       => /\ req[x].docId \notin DOMAIN docs'
          /\ \A e \in entries' : e.documentId # req[x].docId
          /\ taxReturn'.totalIncome =
               SumOf(ValidIncomeEntries(entries', docs'), "amount")
          /\ taxReturn'.totalWithholdings =
               SumOf(ValidIncomeEntries(entries', docs'), "federalTaxWithheld")
          /\ taxReturn'.taxableIncome = 0
          /\ taxReturn'.taxLiability = 0
          /\ taxReturn'.stateTaxLiability = 0
          /\ taxReturn'.refundAmount = 0
          /\ taxReturn'.amountOwed = 0]_vars

\* C5 witness: a DELETE of d1 has succeeded while an entry of d2 and an entry
\* without document remain: the totals are the sums over the former only.
C5_Witness ==
  \E x \in ReqIds :
    /\ req[x].response = [status |-> 200, deleted |-> "d1"]
    /\ \E e \in entries : e.documentId = "d2"
    /\ \E e \in entries : e.documentId = Null
    /\ taxReturn.totalIncome > 0
    /\ taxReturn.taxLiability = 0

\* C6: once two pipelines on two different documents have both returned their
\* success body with a calculation, the persisted totalIncome is the sum over
\* all valid entries.
C6_NoLostUpdate ==
  \A p, q \in ReqIds :
    (/\ req[p].response = [status |-> 200, documentId |-> "d1",
                           processingStatus |-> "COMPLETED", calculated |-> TRUE]
     /\ req[q].response = [status |-> 200, documentId |-> "d2",
                           processingStatus |-> "COMPLETED", calculated |-> TRUE])
    => taxReturn.totalIncome = SumOf(ValidIncomeEntries(entries, docs), "amount")

\* C7: when the tax-return write of the final persistence fails, the document
\* is not COMPLETED and carries no extracted data of this run.
C7_PersistenceIsAtomic ==
  \A p \in ReqIds :
    (req[p].thrown = "taxReturn.update" /\ req[p].docId \in DOMAIN docs)
    => /\ docs[req[p].docId].processingStatus # "COMPLETED"
       /\ docs[req[p].docId].extractedData = req[p].document.extractedData

\* C8: a process request of the owner for a COMPLETED document returns at
\* once, before any stage, leaves the three tables unchanged, and answers 200
\* with the persisted document and tax-return values.
C8_CompletedIsServedFromStore ==
  [][\A p \in ReqIds, d \in DocIds :
       (/\ d \in DOMAIN docs
        /\ docs[d].processingStatus = "COMPLETED"
        /\ ProcessBegin(p, Owner, d))
       => /\ req'[p].pc = "done"
          /\ UNCHANGED <<docs, entries, taxReturn>>
          /\ req'[p].response.status = 200
          /\ req'[p].response.documentId = d
          /\ req'[p].response.processingStatus = "COMPLETED"
          /\ req'[p].response.extractedData = docs[d].extractedData
          /\ req'[p].response.documentType = docs[d].documentType
          /\ req'[p].response.detectedState = taxReturn.detectedState
          /\ req'[p].response.taxCalculations.totalIncome = taxReturn.totalIncome
          /\ req'[p].response.taxCalculations.taxLiability = taxReturn.taxLiability
          /\ req'[p].response.taxCalculations.refundAmount = taxReturn.refundAmount
          /\ req'[p].response.taxCalculations.amountOwed = taxReturn.amountOwed]_vars

\* C8 witness: a request has been answered from the store for a COMPLETED
\* document with extracted data and calculated totals.
C8_Witness ==
  \E p \in ReqIds, d \in DOMAIN docs :
    /\ docs[d].processingStatus = "COMPLETED"
    /\ docs[d].extractedData # None
    /\ taxReturn.totalIncome > 0
    /\ req[p].pc = "done"
    /\ req[p].response = CachedResponse(d, docs[d], taxReturn)

\* C9: once a document is COMPLETED or FAILED its processingStatus never
\* changes again.
C9_TerminalStatusesAreTerminal ==
  [][\A d \in DOMAIN docs \cap DOMAIN docs' :
       docs[d].processingStatus \in {"COMPLETED", "FAILED"}
         => docs'[d].processingStatus = docs[d].processingStatus]_vars

\* C10: a request gets a 401, 404 or 409 answer only in its first step, which
\* changes no table; and a process request without session, of an unknown
\* user, for a missing document or one of another user, or for a PROCESSING
\* document gets that answer.
C10_RejectionsHaveNoSideEffect ==
  [][/\ \A p \in ReqIds :
          (/\ req'[p].response \in {ErrorResponse(401), ErrorResponse(404),
                                    ErrorResponse(409)}
           /\ req'[p] # req[p])
          => (req[p].pc = "new" /\ UNCHANGED <<docs, entries, taxReturn>>)
     /\ \A p \in ReqIds, s \in Sessions, d \in DocIds :
          ProcessBegin(p, s, d) =>
            /\ s = "none" => req'[p].response = ErrorResponse(401)
            /\ (s = "ghost" \/ (s # "none" /\ (s # Owner \/ d \notin DOMAIN docs)))
                 => req'[p].response = ErrorResponse(404)
            /\ (s = Owner /\ d \in DOMAIN docs
                  /\ docs[d].processingStatus = "PROCESSING")
                 => req'[p].response = ErrorResponse(409)]_vars

\* C10 witness: a request was answered 409 while another request is in the
\* pipeline of the PROCESSING document.
C10_Witness ==
  \E p, q \in ReqIds :
    /\ req[p].response = ErrorResponse(409)
    /\ req[q].pc \in PipelinePcs
    /\ docs[req[q].docId].processingStatus = "PROCESSING"

\* C11: the state-detection, duplicate-detection and mapping stages always
\* hand over to the next stage, whether they return or throw, and a run whose
\* two final writes succeed leaves the document COMPLETED and answers 200.
C11_SoftStagesNeverAbort ==
  [][\A p \in ReqIds :
       /\ (req[p].pc \in {"detect", "duplicates", "map"} /\ req'[p] # req[p])
            => /\ req'[p].pc = (CASE req[p].pc = "detect" -> "duplicates"
                                  [] req[p].pc = "duplicates" -> "map"
                                  [] OTHER -> "readValid")
               /\ req'[p].thrown = Null
       /\ (req[p].pc = "persistTaxReturn" /\ req'[p].pc = "done")
            => /\ req[p].docId \in DOMAIN docs'
               /\ docs'[req[p].docId].processingStatus = "COMPLETED"
               /\ req'[p].response.status = 200]_vars

\* C11 witness: a run has returned 200 and its document is COMPLETED with
\* extracted wages although no income entry of the document exists: the
\* mapping stage failed on the way.
C11_Witness ==
  \E p \in ReqIds, d \in DOMAIN docs :
    /\ req[p].pc = "done"
    /\ req[p].response.status = 200
    /\ "documentId" \in DOMAIN req[p].response
    /\ req[p].response.documentId = d
    /\ docs[d].processingStatus = "COMPLETED"
    /\ docs[d].extractedData # None
    /\ docs[d].extractedData.wages = Currency(3000000)
    /\ \A e \in entries : e.documentId # d

\* C12: when the OCR call throws, the request goes to the error handler at
\* once: it has no extracted data and no income entry of its own, its only
\* remaining step leaves IncomeEntry and TaxReturn unchanged, marks the
\* document FAILED unless that write fails, and answers with the error body.
C12_ExtractionFailureStops ==
  [][\A p \in ReqIds :
       /\ (req[p].pc = "extract" /\ req'[p].thrown = "extraction")
            => (req'[p].pc = "fatal" /\ UNCHANGED <<docs, entries, taxReturn>>)
       /\ req[p].thrown = "extraction"
            => /\ req[p].pc = "fatal"
               /\ req[p].extractedData = None
               /\ \A e \in entries : e.id # EntryId(p)
       /\ (req[p].thrown = "extraction" /\ req'[p] # req[p])
            => /\ req'[p].pc = "done"
               /\ req'[p].response = ErrorResponse(500)
               /\ UNCHANGED <<entries, taxReturn>>
               /\ \/ UNCHANGED docs
                  \/ /\ req[p].docId \in DOMAIN docs
                     /\ docs' = [docs EXCEPT
                                   ![req[p].docId].processingStatus = "FAILED"]]_vars

\* C12 witness: the OCR call of a request has thrown while its document is
\* PROCESSING.
C12_Witness ==
  \E p \in ReqIds :
    /\ req[p].thrown = "extraction"
    /\ req[p].docId \in DOMAIN docs
    /\ docs[req[p].docId].processingStatus = "PROCESSING"

\* C13: a calculation that throws in the recompute stage aborts the pipeline:
\* the request goes to the error handler, not on to the final persistence.
C13_CalculationFailureIsFatal ==
  [][\A p \in ReqIds :
       (req[p].pc = "calculate" /\ req'[p] # req[p]
          /\ req'[p].taxCalculationResult = None)
       => req'[p].pc = "fatal"]_vars

\* C14: no step of a pipeline run that holds no detected state, the final
\* tax-return write included, changes the detectedState of the tax return
\* (stateConfidence and stateSource are written together with it).
C14_NoDetectionKeepsDetectedState ==
  [][\A p \in ReqIds :
       (/\ req[p].pc \in PipelinePcs \cup {"mark", "fatal"}
        /\ req[p].detectedStateCode = Null
        /\ req'[p] # req[p]
        /\ req'[p].detectedStateCode = Null)
       => taxReturn'.detectedState = taxReturn.detectedState]_vars

\* C14 witness: a run that detected no state is at its final write while the
\* tax return carries the state detected by an earlier run.
C14_Witness ==
  \E p \in ReqIds :
    /\ req[p].pc = "persistTaxReturn"
    /\ req[p].detectedStateCode = Null
    /\ req[p].taxCalculationResult # None
    /\ taxReturn.detectedState = "IL"

\* C15: when a run that detected no state completes with a calculation on a
\* tax return that already carries a detected state, the persisted state-tax
\* fields are those the calculator gives for that state.
C15_KnownStateIsUsed ==
  [][\A p \in ReqIds :
       (/\ RunCompletes(p)
        /\ req[p].detectedStateCode = Null
        /\ req[p].taxCalculationResult # None
        /\ taxReturn.detectedState # Null)
       => LET known == calculateStateTax(taxReturn'.adjustedGrossIncome,
                                         FilingStatus, taxReturn.detectedState)
          IN /\ taxReturn'.stateTaxLiability = known.stateTaxLiability
             /\ taxReturn'.stateTaxableIncome = known.stateTaxableIncome
             /\ taxReturn'.stateStandardDeduction = known.stateStandardDeduction]_vars

\* C16: whatever the polls return, an open status stream eventually stops
\* polling with its channel closed (or cancelled by the client).
C16_StreamAlwaysEnds ==
  (stream.pc = "reading")
    ~> (stream.pc = "stopped" /\ (stream.closed \/ stream.cancelled))

\* C17: a failed poll is retried after the longer backoff, the first failure
\* is never the last one, and after more than 10 failures in a row the
\* stream has given up with its channel closed.
C17_ErrorRetriesAreBounded ==
  /\ stream.errorsInARow > retryLimit
       => (stream.pc = "stopped" /\ stream.closed)
  /\ (stream.errorsInARow = 1
        /\ stream.emitted = <<ErrorEvent("Error checking document status")>>)
       => (stream.pc = "scheduled" /\ stream.delay = errorBackoff)

\* C18: the poll that brings the count to 300 sends its status update and
\* then one timeout event and closes the channel; no other step sends a
\* timeout event, and a closed channel sends nothing more.
C18_TimeoutOnceThenClosed ==
  [][ /\ (stream'.pollCount = maxPolls /\ stream.pollCount # maxPolls)
           => /\ Len(stream'.emitted) = 2
              /\ stream'.emitted[1].type = "status_update"
              /\ stream'.emitted[2] = TimeoutEvent
              /\ stream'.closed
              /\ stream'.pc = "stopped"
      /\ (stream' # stream
            /\ \E i \in 1..Len(stream'.emitted) : stream'.emitted[i] = TimeoutEvent)
           => (stream'.pollCount = maxPolls /\ stream.pollCount = maxPolls - 1)
      /\ stream.closed => stream' = stream ]_vars

C18_Witness ==
  /\ stream.pollCount = maxPolls
  /\ stream.observed = "PROCESSING"
  /\ stream.closed
  /\ Len(stream.emitted) = 2
  /\ stream.emitted[2] = TimeoutEvent

\* C19: a poll of an open stream that reads COMPLETED sends one status update
\* with the OCR text, the extracted data and all stages complete, then one
\* completed event, and closes; nothing is scheduled or sent afterwards.
C19_CompletedEndsTheStream ==
  [][ /\ (stream'.observed = "COMPLETED" /\ stream.observed # "COMPLETED"
            /\ ~stream.cancelled)
           => /\ Len(stream'.emitted) = 2
              /\ stream'.emitted[1].type = "status_update"
              /\ stream'.emitted[1].status = "COMPLETED"
              /\ stream'.emitted[1].ocrText
              /\ stream'.emitted[1].extractedData
              /\ stream'.emitted[1].processingStages = "all complete"
              /\ stream'.emitted[2].type = "completed"
              /\ stream'.closed
              /\ stream'.pc = "stopped"
      /\ stream.observed = "COMPLETED" => stream' = stream ]_vars

C19_Witness ==
  /\ stream.observed = "COMPLETED"
  /\ stream.pollCount > 0
  /\ stream.closed
  /\ Len(stream.emitted) = 2
  /\ stream.emitted[2] = CompletedEvent

\* C20: once the client has cancelled the stream no poll is scheduled any
\* more: a pending timer may still fire once, and the poll it starts ends
\* the loop whatever it reads.
C20_NoPollScheduledAfterCancel ==
  [][ stream.cancelled
        => /\ ~(stream'.pc = "scheduled" /\ stream.pc # "scheduled")
           /\ stream.pc = "reading" => stream'.pc \in {"reading", "stopped"}
           /\ stream'.emitted = <<>> ]_vars

C20_Witness ==
  /\ stream.cancelled
  /\ stream.observed \in {"PENDING", "PROCESSING"}
  /\ stream.pc = "stopped"
  /\ ~stream.closed

(* ---------------------------------------------------------------------- *)
(* DocumentRealTimeProcessor: processSingleDocument and                   *)
(* startRealTimeMonitoring for one selected file.                         *)
(* ---------------------------------------------------------------------- *)
\* data.progress of a status_update; 0 stands for an absent progress as well
ServerProgress == {0, 40, 95}

\* the messages of the push channel as the client reads them; "malformed" is
\* a message whose data JSON.parse rejects
RtmEvents ==
  {[type |-> t] : t \in {"connected", "completed", "error", "timeout",
                         "unknown", "malformed"}}
    \cup {[type |-> "status_update", status |-> st, progress |-> p,
           extractedData |-> e] :
            st \in {"PENDING", "PROCESSING", "COMPLETED"},
            p \in ServerProgress, e \in BOOLEAN}

\* resolve() and reject() settle a promise that is still pending
Settle(promise, outcome) == IF promise = "pending" THEN outcome ELSE promise

SettleRejectingTimeout(type) ==
  IF type = "completed" THEN "resolved" ELSE "rejected"

\* how onmessage settles the promise on a terminal event
SettleOn(type) ==
  CASE type = "completed" -> "resolved"
    [] type = "error" -> "rejected"
    [] type = "timeout" -> "resolved"

\* the switch of eventSource.onmessage
onmessage(c, ev) ==
  CASE ev.type = "connected" ->
         [c EXCEPT !.message = "Real-time monitoring connected", !.progress = 55]
    [] ev.type = "status_update" ->
         LET progress == IF ev.progress = 0 THEN 60 ELSE ev.progress
             upd == [c EXCEPT !.progress = progress,
                              !.message = "Status: " \o ev.status]
         IN CASE ev.status = "PROCESSING" ->
                   [upd EXCEPT !.status = "extraction",
                               !.message = "Extracting and analyzing document..."]
              [] ev.status = "COMPLETED" ->
                   [upd EXCEPT !.status = "completed", !.progress = 100,
                               !.message = "Document processing completed!",
                               !.extractedData = ev.extractedData]
              [] OTHER -> upd
    [] ev.type = "completed" ->
         [c EXCEPT !.status = "completed", !.progress = 100,
                   !.message = "Processing completed successfully!",
                   !.channel = "closed",
                   !.promise = Settle(c.promise, SettleOn(ev.type))]
    [] ev.type = "error" ->
         [c EXCEPT !.status = "error", !.progress = 0,
                   !.message = "Processing failed",
                   !.realTimeUpdates = FALSE,
                   !.channel = "closed",
                   !.promise = Settle(c.promise, SettleOn(ev.type))]
    [] ev.type = "timeout" ->
         [c EXCEPT !.status = "error", !.progress = 90,
                   !.message = "Processing timeout - please refresh to check status",
                   !.realTimeUpdates = FALSE,
                   !.channel = "closed",
                   !.promise = Settle(c.promise, SettleOn(ev.type))]
    [] OTHER -> c

\* processSingleDocument up to the upload request
RtmStart ==
  /\ rtm.pc = "idle"
  /\ rtm' = [rtm EXCEPT !.pc = "uploading", !.status = "uploading",
                        !.progress = 30, !.message = "Uploading to server..."]
  /\ UNCHANGED <<docs, entries, taxReturn, req, stream, dp, call>>

\* the upload returns: a failure goes to the catch block of
\* processSingleDocument; a success calls startRealTimeMonitoring, which opens
\* the EventSource and sends the process request
RtmUploadReturns(ok) ==
  /\ rtm.pc = "uploading"
  /\ rtm' = IF ok
            THEN [rtm EXCEPT !.pc = "monitoring", !.status = "processing",
                             !.progress = 50,
                             !.message = "Document uploaded successfully. Starting real-time processing...",
                             !.realTimeUpdates = TRUE,
                             !.channel = "open", !.promise = "pending",
                             !.processFetch = "pending"]
            ELSE [rtm EXCEPT !.pc = "done", !.status = "error", !.progress = 0,
                             !.message = "Failed to upload document"]
  /\ UNCHANGED <<docs, entries, taxReturn, req, stream, dp, call>>

\* eventSource.onopen
RtmOpen ==
  /\ rtm.channel = "open"
  /\ rtm' = [rtm EXCEPT !.message = "Connected to real-time updates...",
                        !.last = "onopen"]
  /\ UNCHANGED <<docs, entries, taxReturn, req, stream, dp, call>>

\* eventSource.onmessage: a closed EventSource delivers nothing
RtmMessage(ev) ==
  /\ rtm.channel = "open"
  /\ rtm' = [onmessage(rtm, ev) EXCEPT !.last = ev.type]
  /\ UNCHANGED <<docs, entries, taxReturn, req, stream, dp, call>>

\* eventSource.onerror: the push channel fails at the network level
RtmChannelError ==
  /\ rtm.channel = "open"
  /\ rtm' = [rtm EXCEPT !.status = "error",
                        !.message = "Connection to real-time updates lost. Processing may continue in background.",
                        !.realTimeUpdates = FALSE,
                        !.channel = "closed",
                        !.timer = TRUE,
                        !.last = "onerror"]
  /\ UNCHANGED <<docs, entries, taxReturn, req, stream, dp, call>>

\* setTimeout(() => resolve(), 1000) of onerror fires
RtmTimerFires ==
  /\ rtm.timer
  /\ rtm' = [rtm EXCEPT !.timer = FALSE,
                        !.promise = Settle(rtm.promise, "resolved")]
  /\ UNCHANGED <<docs, entries, taxReturn, req, stream, dp, call>>

\* the process request: a response of any status is ignored, a network
\* failure runs the .catch handler
RtmProcessFetchReturns(ok) ==
  /\ rtm.processFetch = "pending"
  /\ rtm' = IF ok
            THEN [rtm EXCEPT !.processFetch = "returned"]
            ELSE [rtm EXCEPT !.processFetch = "failed", !.status = "error",
                             !.message = "Failed to start document processing",
                             !.channel = "closed",
                             !.promise = Settle(rtm.promise, "rejected"),
                             !.last = "fetch catch"]
  /\ UNCHANGED <<docs, entries, taxReturn, req, stream, dp, call>>

\* processSingleDocument after `await startRealTimeMonitoring(...)`: a
\* rejection runs its catch block, a resolution ends it
RtmSettled ==
  /\ rtm.pc = "monitoring"
  /\ rtm.promise \in {"resolved", "rejected"}
  /\ rtm' = IF rtm.promise = "rejected"
            THEN [rtm EXCEPT !.pc = "done", !.status = "error", !.progress = 0,
                             !.message = "error.message"]
            ELSE [rtm EXCEPT !.pc = "done"]
  /\ UNCHANGED <<docs, entries, taxReturn, req, stream, dp, call>>

RtmNext ==
  \/ RtmStart
  \/ \E ok \in BOOLEAN : RtmUploadReturns(ok)
  \/ RtmOpen
  \/ \E ev \in RtmEvents : RtmMessage(ev)
  \/ RtmChannelError
  \/ RtmTimerFires
  \/ \E ok \in BOOLEAN : RtmProcessFetchReturns(ok)
  \/ RtmSettled

RtmSpec == Init /\ [][RtmNext]_vars

\* C21: after a network-level error of the push channel the entry is marked
\* offline but is not in the error state.
C21_ChannelErrorIsNotAnError ==
  rtm.last = "onerror" => (rtm.status # "error" /\ ~rtm.realTimeUpdates)

\* C22: a completed event leaves the entry completed with the promise
\* resolved, an error event leaves it in error with the promise rejected, a
\* timeout event leaves it in error with the promise resolved; each of them
\* closes the channel.
C22_TerminalEventsSettle ==
  /\ rtm.last = "completed"
       => (rtm.status = "completed" /\ rtm.promise = "resolved"
             /\ rtm.channel = "closed")
  /\ rtm.last = "error"
       => (rtm.status = "error" /\ rtm.promise = "rejected"
             /\ rtm.channel = "closed")
  /\ rtm.last = "timeout"
       => (rtm.status = "error" /\ rtm.promise = "resolved"
             /\ rtm.channel = "closed")

C22_Witness ==
  /\ rtm.last = "timeout"
  /\ rtm.pc = "done"
  /\ rtm.status = "error"
  /\ rtm.promise = "resolved"

(* ---------------------------------------------------------------------- *)
(* DocumentProcessor: processSingleDocument, pollDocumentStatus and       *)
(* handleDuplicateAction for one selected file.                           *)
(* ---------------------------------------------------------------------- *)
maxAttempts == 240
maxConsecutiveErrors == 12

\* what the fetch of a poll yields: it throws, or answers with an error
\* status, or answers 200 with the document in this processingStatus
\* ("http 500" stands for every error status other than 404: all of them throw)
PollResponses ==
  {"network error", "http 500", "http 404",
   "PENDING", "PROCESSING", "COMPLETED", "FAILED"}

\* attempts++
CountAttemptNot(n) == n

CountAttempt(n) == n + 1

\* min(95, 50 + floor((attempts / maxAttempts) * 45))
PollProgress(attempts) == Min(95, 50 + ((attempts * 45) \div maxAttempts))

\* the poll ends: its entry update and no further timer
PollEnds(p, status, message) ==
  [p EXCEPT !.pollPc = "ended", !.status = status, !.message = message,
            !.progress = 0]

\* the catch block of poll
PollCatch(p) ==
  LET c == [p EXCEPT !.consecutiveErrors = p.consecutiveErrors + 1]
  IN IF c.consecutiveErrors >= maxConsecutiveErrors
     THEN PollEnds(c, "error", "persistent connection issues")
     ELSE IF c.attempts < maxAttempts
     THEN [c EXCEPT !.attempts = CountAttempt(c.attempts),
                    !.status = "processing",
                    !.progress = PollProgress(CountAttempt(c.attempts)),
                    !.message = "Verifying processing status...",
                    !.pollPc = "scheduled",
                    !.delay = IF c.consecutiveErrors > 3 THEN 5000 ELSE 3000]
     ELSE PollEnds(c, "error", "unable to verify processing completion")

\* poll from the return of its fetch to its end
poll(p, response) ==
  CASE response = "network error" -> PollCatch(p)
    [] response = "http 500" ->
         PollCatch([p EXCEPT !.consecutiveErrors = p.consecutiveErrors + 1])
    [] response = "http 404" ->
         PollEnds([p EXCEPT !.consecutiveErrors = p.consecutiveErrors + 1],
                  "error", "Document not found")
    [] OTHER ->
         LET ok == [p EXCEPT !.consecutiveErrors = 0]
         IN CASE response = "COMPLETED" ->
                   [ok EXCEPT !.pollPc = "ended", !.status = "completed",
                              !.progress = 100,
                              !.message = "Document processed successfully",
                              !.extractedData = "document.extractedData"]
              [] response = "FAILED" ->
                   PollEnds(ok, "error", "Document processing failed")
              [] response = "PROCESSING" /\ ok.attempts < maxAttempts ->
                   [ok EXCEPT !.status = "processing",
                              !.progress = PollProgress(ok.attempts),
                              !.message = "Analyzing document content...",
                              !.attempts = CountAttempt(ok.attempts),
                              !.pollPc = "scheduled", !.delay = 2000]
              [] OTHER ->
                   PollEnds(ok, "error", "taking longer than expected")

\* pollDocumentStatus(documentId, ...) up to the fetch of its first poll
pollDocumentStatus(p, documentId) ==
  [p EXCEPT !.pollPc = "fetching", !.pollDocumentId = documentId,
            !.attempts = 0, !.consecutiveErrors = 0]

\* the messages of the errors that reach the catch block of
\* processSingleDocument and that it counts as network, timeout, temporary or
\* streaming errors
TransientErrors ==
  {"Failed to fetch", "Failed to upload document", "Failed to process document",
   "Failed to parse extracted data"}

\* the catch block of processSingleDocument; currentDoc is
\* state.processedDocuments[index]?.document
DpCatch(p, errorMessage, currentDoc) ==
  LET c == [p EXCEPT !.pc = "done",
                     !.caught = IF errorMessage \in TransientErrors
                                THEN "transient" ELSE "genuine"]
  IN IF errorMessage \in TransientErrors
     THEN IF currentDoc # Null
          THEN pollDocumentStatus(
                 [c EXCEPT !.status = "processing", !.progress = 70,
                           !.message = "Connection issue detected - verifying processing status..."],
                 currentDoc)
          ELSE [c EXCEPT !.status = "error", !.progress = 0,
                         !.message = "Upload failed due to connection issues"]
     ELSE [c EXCEPT !.status = "error", !.progress = 0,
                    !.message = "Processing error"]

\* `state` in processSingleDocument is the state of the render in which
\* "process all" was clicked: the entries of earlier files stay in the list,
\* so that state.processedDocuments[index] is then no entry, an entry without
\* a document, or an entry with the document of an earlier upload; the
\* updates made by processAllDocuments and processSingleDocument themselves
\* are not in it
ClosureDocuments == {Null, "earlier document"}

\* processSingleDocument has returned, or awaits the first poll of
\* pollDocumentStatus
AwaitsFirstPoll(p) == p.pollPc = "fetching"

\* processAllDocuments after `await processSingleDocument(i, file)` for the
\* last file of the batch: the loop ends and the batch status is set
ReturnToBatch(p) ==
  IF p.pc = "done" /\ ~AwaitsFirstPoll(p)
  THEN [p EXCEPT !.batch = "completed"]
  ELSE p

\* processAllDocuments / processSingleDocument up to the upload request
DpStart ==
  /\ dp.pc = "idle"
  /\ dp' = [dp EXCEPT !.pc = "uploading", !.status = "uploading",
                      !.progress = 30, !.message = "Uploading to server...",
                      !.batch = "processing"]
  /\ UNCHANGED <<docs, entries, taxReturn, req, stream, rtm, call>>

UploadOutcomes == {"ok", "http error", "network error"}

\* the upload returns
DpUploadReturns(outcome, currentDoc) ==
  /\ dp.pc = "uploading"
  /\ outcome = "ok" => currentDoc = Null
  /\ dp' = ReturnToBatch(
             CASE outcome = "ok" ->
                  [dp EXCEPT !.pc = "processing", !.document = "uploaded document",
                             !.status = "processing", !.progress = 50,
                             !.message = "Extracting data from document..."]
             [] outcome = "http error" ->
                  DpCatch(dp, "Failed to upload document", currentDoc)
             [] OTHER -> DpCatch(dp, "Failed to fetch", currentDoc))
  /\ UNCHANGED <<docs, entries, taxReturn, req, stream, rtm, call>>

\* what the process request yields: a network failure, an error status, a
\* JSON body (success, success with a duplicate verdict, or failure), or an
\* event stream (with a result, with a duplicate verdict, with a result that
\* does not parse, or ending without a result)
ProcessOutcomes ==
  {"network error", "http error", "json success", "json duplicate",
   "json failure", "stream result", "stream duplicate", "stream unparsable",
   "stream without result"}

\* processSingleDocument from the return of the process request up to its
\* return or up to the fetch of the first poll
HandleProcessResponse(p, outcome, currentDoc) ==
  LET completed == [p EXCEPT !.pc = "done", !.status = "completed",
                             !.progress = 100,
                             !.message = "Document processed successfully",
                             !.extractedData = "result.data"]
      warned == [p EXCEPT !.pc = "done", !.status = "duplicate_warning",
                          !.progress = 100,
                          !.message = "Potential duplicate detected - user action required",
                          !.extractedData = "result.data",
                          !.duplicateWarning = TRUE]
  IN CASE outcome = "network error" ->
            DpCatch(p, "Failed to fetch", currentDoc)
       [] outcome = "http error" ->
            DpCatch(p, "Failed to process document", currentDoc)
       [] outcome = "json failure" ->
            DpCatch(p, "Processing failed", currentDoc)
       [] outcome = "stream unparsable" ->
            DpCatch(p, "Failed to parse extracted data", currentDoc)
       [] outcome = "json success" ->
            pollDocumentStatus(completed, p.document)
       [] outcome = "json duplicate" ->
            pollDocumentStatus(warned, p.document)
       [] outcome = "stream result" -> completed
       [] outcome = "stream duplicate" -> warned
       [] OTHER ->
            pollDocumentStatus([p EXCEPT !.pc = "done"], p.document)

\* the process request returns
DpProcessReturns(outcome, currentDoc) ==
  /\ dp.pc = "processing"
  /\ outcome \in {"json success", "json duplicate", "stream result",
                  "stream duplicate", "stream without result"}
       => currentDoc = Null
  /\ dp' = ReturnToBatch(HandleProcessResponse(dp, outcome, currentDoc))
  /\ UNCHANGED <<docs, entries, taxReturn, req, stream, rtm, call>>

\* the fetch of a poll returns and poll runs to its end; the return of the
\* first poll is the return of pollDocumentStatus and of processSingleDocument
DpPollReturns(response) ==
  /\ dp.pollPc = "fetching"
  /\ dp' = [poll(dp, response) EXCEPT !.response = response,
                                      !.batch = "completed"]
  /\ UNCHANGED <<docs, entries, taxReturn, req, stream, rtm, call>>

\* the timer set by setTimeout(poll, delay) fires: the next fetch starts
DpTimerFires ==
  /\ dp.pollPc = "scheduled"
  /\ dp' = [dp EXCEPT !.pollPc = "fetching", !.delay = 0, !.response = Null]
  /\ UNCHANGED <<docs, entries, taxReturn, req, stream, rtm, call>>

DuplicateActions == {"proceed", "cancel", "replace"}

\* handleDuplicateAction up to its request to the duplicate-action endpoint
DpSubmitAction(action) ==
  /\ dp.duplicateWarning
  /\ dp.action = Null
  /\ dp' = [dp EXCEPT !.action = action, !.status = "processing",
                      !.message = "Processing duplicate action..."]
  /\ UNCHANGED <<docs, entries, taxReturn, req, stream, rtm, call>>

\* the duplicate-action request returns
DpActionReturns(ok) ==
  /\ dp.action # Null
  /\ dp' = IF ~ok
           THEN [dp EXCEPT !.action = Null, !.status = "error",
                           !.message = "Failed to process duplicate action"]
           ELSE IF dp.action = "cancel"
           THEN [dp EXCEPT !.action = Null, !.status = "error",
                           !.message = "Import cancelled due to duplicate warning",
                           !.duplicateWarning = FALSE]
           ELSE [dp EXCEPT !.action = Null, !.status = "completed",
                           !.progress = 100,
                           !.message = "Document imported",
                           !.extractedData = "result.data",
                           !.duplicateWarning = FALSE]
  /\ UNCHANGED <<docs, entries, taxReturn, req, stream, rtm, call>>

DpNext ==
  \/ DpStart
  \/ \E outcome \in UploadOutcomes, d \in ClosureDocuments :
       DpUploadReturns(outcome, d)
  \/ \E outcome \in ProcessOutcomes, d \in ClosureDocuments :
       DpProcessReturns(outcome, d)
  \/ \E response \in PollResponses : DpPollReturns(response)
  \/ DpTimerFires
  \/ \E action \in DuplicateActions : DpSubmitAction(action)
  \/ \E ok \in BOOLEAN : DpActionReturns(ok)

DpSpec == Init /\ [][DpNext]_vars

\* timers fire and requests return
FairDpSpec ==
  /\ DpSpec
  /\ WF_vars(DpTimerFires)
  /\ WF_vars(\E response \in PollResponses : DpPollReturns(response))

\* C23: the fallback poll loop never counts more than 240 attempts, and a
\* poll that has started is followed by the end of the loop with the entry
\* completed or in error.
C23_PollLoopTerminates ==
  /\ [](dp.attempts <= maxAttempts)
  /\ (dp.pollPc = "fetching")
       ~> (dp.pollPc = "ended" /\ dp.status \in {"completed", "error"})

C23_Witness ==
  /\ dp.pollPc = "ended"
  /\ dp.attempts = maxAttempts
  /\ dp.response = "PROCESSING"
  /\ dp.status = "error"

\* C24: a poll that fails, by a network error or by an error status, adds
\* one to the consecutive-error count.
C24_FailedPollCountsOnce ==
  [][ (dp.pollPc = "fetching" /\ dp'.pollPc # "fetching"
         /\ dp'.response \in {"network error", "http 500", "http 404"})
        => dp'.consecutiveErrors = dp.consecutiveErrors + 1 ]_vars

\* C25: a poll that reads PENDING or PROCESSING before the 240th attempt
\* schedules the next poll and does not put the entry into error.
C25_NonTerminalStatusKeepsPolling ==
  [][ (dp.pollPc = "fetching" /\ dp'.pollPc # "fetching"
         /\ dp'.response \in {"PENDING", "PROCESSING"}
         /\ dp.attempts < maxAttempts)
        => (dp'.pollPc = "scheduled" /\ dp'.status # "error") ]_vars

C27_TransientErrorStartsRecovery ==
  (dp.caught = "transient" /\ dp.document # Null)
    => (dp.pollPc # "none" /\ dp.pollDocumentId = dp.document)

SampleIncomes == {0, 1000000, 3000000, 4999900, 6000000, 12000000}
SampleWithholdings == {0, 200000, 2500000}
\* no state code, a state of the table (in either case), codes outside it
SampleStateCodes == {Null, "IL", "il", "ZZ", "zz", "PR", "XX"}

CallCalculateEnhancedTaxReturnWithState(totalIncome, totalWithholdings, stateCode) ==
  /\ call.fn = Null
  /\ call' = [fn |-> "calculateEnhancedTaxReturnWithState",
              input |-> [totalIncome |-> totalIncome,
                         totalWithholdings |-> totalWithholdings,
                         stateCode |-> stateCode],
              result |-> calculateEnhancedTaxReturnWithState(
                           totalIncome, totalWithholdings, stateCode)]
  /\ UNCHANGED <<docs, entries, taxReturn, req, stream, rtm, dp>>

CalcNext ==
  \E totalIncome \in SampleIncomes, totalWithholdings \in SampleWithholdings,
     stateCode \in SampleStateCodes :
    CallCalculateEnhancedTaxReturnWithState(totalIncome, totalWithholdings, stateCode)

CalcSpec == Init /\ [][CalcNext]_vars

\* C29: when the state calculation throws for the state code, the result is
\* the federal result (taxLiability, finalTax, refundAmount, amountOwed, no
\* stateTax) with one suggestion appended, which names the state code.
C29_StateFailureFallsBackToFederal ==
  (call.fn = "calculateEnhancedTaxReturnWithState"
     /\ call.input.stateCode # Null
     /\ IsThrown(calculateStateTax(call.input.totalIncome, FilingStatus,
                                   call.input.stateCode)))
    => LET federalResult == calculateEnhancedTaxReturn(call.input.totalIncome,
                                                       call.input.totalWithholdings)
       IN /\ ~IsThrown(call.result)
          /\ call.result.taxLiability = federalResult.taxLiability
          /\ call.result.finalTax = federalResult.finalTax
          /\ call.result.refundAmount = federalResult.refundAmount
          /\ call.result.amountOwed = federalResult.amountOwed
          /\ call.result.stateTax = None
          /\ call.result.taxOptimizationSuggestions
               = Append(federalResult.taxOptimizationSuggestions,
                        "State tax calculation failed for "
                          \o call.input.stateCode
                          \o ". Showing federal taxes only.")

C29_Witness ==
  /\ call.fn = "calculateEnhancedTaxReturnWithState"
  /\ call.input.stateCode = "ZZ"
  /\ call.input.totalIncome = 6000000
  /\ call.result.stateTax = None
  /\ call.result.taxLiability > 0
  /\ Len(call.result.taxOptimizationSuggestions) = 2

(* ---------------------------------------------------------------------- *)
(* State detector: detectStateFromDocument.  Confidences are in 1/1000.   *)
(* ---------------------------------------------------------------------- *)
US_STATES ==
  {"AL", "AK", "AZ", "AR", "CA", "CO", "CT", "DE", "FL", "GA", "HI", "ID", "IL",
   "IN", "IA", "KS", "KY", "LA", "ME", "MD", "MA", "MI", "MN", "MS", "MO", "MT",
   "NE", "NV", "NH", "NJ", "NM", "NY", "NC", "ND", "OH", "OK", "OR", "PA", "RI",
   "SC", "SD", "TN", "TX", "UT", "VT", "VA", "WA", "WV", "WI", "WY", "DC"}

\* an absent field of the extracted data
NoField == Null

\* stateValue.trim().toUpperCase(), on the sampled values
CleanState(stateValue) ==
  CASE stateValue = " il " -> "IL"
    [] stateValue = "ca" -> "CA"
    [] OTHER -> stateValue

\* the sampled values of a state field and of an address field
SampleStateFields == {NoField, "IL", " il ", "ZZ"}
SampleAddresses == {NoField, "123 Main St, Springfield, IL 62704", "PO Box 12"}

\* parseStateFromAddress on the sampled addresses: the first pattern finds
\* ", IL 62704"; no pattern matches "PO Box 12", which ends in digits
parseStateFromAddress(address) ==
  IF address = "123 Main St, Springfield, IL 62704" THEN "IL" ELSE Null

UnknownState == [detectedState |-> Null, confidence |-> 0, source |-> "unknown"]

RECURSIVE FirstStateField(_, _, _)
\* the loop of extractDirectStateField over the state fields from the i-th on
FirstStateField(data, stateFields, i) ==
  IF i > Len(stateFields) THEN UnknownState
  ELSE LET stateValue == data[stateFields[i]]
       IN IF stateValue # NoField /\ CleanState(stateValue) \in US_STATES
          THEN [detectedState |-> CleanState(stateValue), confidence |-> 950,
                source |-> IF stateFields[i] = "employeeState"
                           THEN "address" ELSE "employer"]
          ELSE FirstStateField(data, stateFields, i + 1)

extractDirectStateField(data) ==
  FirstStateField(data, <<"employeeState", "employerState">>, 1)

RECURSIVE FirstAddress(_, _, _)
\* the loop of extractStateFromAddresses over the address fields from the i-th on
FirstAddress(data, addressFields, i) ==
  IF i > Len(addressFields) THEN UnknownState
  ELSE LET address == data[addressFields[i]]
       IN IF address # NoField /\ parseStateFromAddress(address) # Null
          THEN [detectedState |-> parseStateFromAddress(address),
                confidence |-> 850,
                source |-> IF addressFields[i] = "employeeAddress"
                           THEN "address" ELSE "employer"]
          ELSE FirstAddress(data, addressFields, i + 1)

extractStateFromAddresses(data) ==
  FirstAddress(data, <<"employeeAddress", "employerAddress">>, 1)

\* what the request to the classifier yields: the fetch throws, the answer
\* has an error status, its body is not JSON, its stateCode is not a string,
\* or it is a JSON object with this stateCode (absent or a string) and this
\* confidence (0 for absent)
LlmAnswers ==
  {[kind |-> k] : k \in {"unreachable", "http error", "not json",
                         "stateCode is not a string"}}
    \cup {[kind |-> "json", stateCode |-> c, confidence |-> x] :
            c \in {NoField, "CA", "ca", "ZZ"}, x \in {0, 900, 1500}}

detectStateUsingLLMUncaught(answer) ==
  IF answer.kind # "json" THEN Thrown(answer.kind)
  ELSE IF answer.stateCode # NoField /\ CleanState(answer.stateCode) \in US_STATES
  THEN [detectedState |-> CleanState(answer.stateCode),
        confidence |-> Min(Max(IF answer.confidence = 0 THEN 700
                               ELSE answer.confidence, 0), 1000),
        source |-> "document_type"]
  ELSE UnknownState

\* every throw inside the function is caught and answered with "unknown"
detectStateUsingLLM(answer) ==
  IF answer.kind # "json" THEN UnknownState
  ELSE IF answer.stateCode # NoField /\ CleanState(answer.stateCode) \in US_STATES
  THEN [detectedState |-> CleanState(answer.stateCode),
        confidence |-> Min(Max(IF answer.confidence = 0 THEN 700
                               ELSE answer.confidence, 0), 1000),
        source |-> "document_type"]
  ELSE UnknownState

\* the three tiers; llmCalled tells whether the request to the classifier
\* was made; a throw of the classifier call would go through
detectStateFromDocument(data, answer) ==
  LET directState == extractDirectStateField(data)
      addressState == extractStateFromAddresses(data)
      llmState == detectStateUsingLLM(answer)
  IN IF directState.detectedState # Null
     THEN directState @@ [llmCalled |-> FALSE]
     ELSE IF addressState.detectedState # Null
     THEN addressState @@ [llmCalled |-> FALSE]
     ELSE IF IsThrown(llmState) THEN llmState
     ELSE IF llmState.detectedState # Null
     THEN llmState @@ [llmCalled |-> TRUE]
     ELSE UnknownState @@ [llmCalled |-> TRUE]

CallDetectStateFromDocument(data, answer) ==
  /\ call.fn = Null
  /\ call' = [fn |-> "detectStateFromDocument",
              input |-> [data |-> data, answer |-> answer],
              result |-> detectStateFromDocument(data, answer)]
  /\ UNCHANGED <<docs, entries, taxReturn, req, stream, rtm, dp>>

DetectNext ==
  \E employeeState \in SampleStateFields, employerState \in SampleStateFields,
     employeeAddress \in SampleAddresses, employerAddress \in SampleAddresses,
     answer \in LlmAnswers :
    CallDetectStateFromDocument(
      [employeeState |-> employeeState, employerState |-> employerState,
       employeeAddress |-> employeeAddress, employerAddress |-> employerAddress],
      answer)

DetectSpec == Init /\ [][DetectNext]_vars

\* no state field of the input holds a valid code and no address parses
NothingInTheDocument(data) ==
  /\ \A f \in {"employeeState", "employerState"} :
       data[f] = NoField \/ CleanState(data[f]) \notin US_STATES
  /\ \A f \in {"employeeAddress", "employerAddress"} :
       data[f] = NoField \/ parseStateFromAddress(data[f]) = Null

\* the classifier call fails or answers without a valid state code
ClassifierFindsNothing(answer) ==
  \/ answer.kind # "json"
  \/ answer.stateCode = NoField
  \/ CleanState(answer.stateCode) \notin US_STATES

\* C30: detectStateFromDocument never throws for a classifier failure: when
\* the document holds no state and the classifier finds nothing, the result
\* is confidence 0, source unknown, no detectedState; the classifier is
\* called only when the document holds no state.
C30_ClassifierFailureYieldsUnknown ==
  call.fn = "detectStateFromDocument"
    => /\ ~IsThrown(call.result)
       /\ (NothingInTheDocument(call.input.data)
             /\ ClassifierFindsNothing(call.input.answer))
            => /\ call.result.detectedState = Null
               /\ call.result.confidence = 0
               /\ call.result.source = "unknown"
       /\ call.result.llmCalled => NothingInTheDocument(call.input.data)

C30_Witness ==
  /\ call.fn = "detectStateFromDocument"
  /\ call.input.answer.kind = "unreachable"
  /\ call.input.data.employeeState = "ZZ"
  /\ call.input.data.employeeAddress = "PO Box 12"
  /\ call.result.llmCalled
  /\ call.result.source = "unknown"

\* C31: a step of the status stream that emits an error event closes the
\* channel and stops the poll loop, so that no event follows it.
C31_ErrorEventIsLast ==
  (\E i \in 1..Len(stream.emitted) : stream.emitted[i].type = "error")
    => (stream.closed /\ stream.pc = "stopped")

\* C32: whatever process requests a document has received, one after the
\* other, at most one income entry references it.
C32_OneIncomeEntryPerDocument ==
  \A d \in DocIds : Cardinality({e \in entries : e.documentId = d}) <= 1

\* C33: the error handler of a process request that failed during its
\* look-ups, before its own PROCESSING mark, leaves every document's
\* processingStatus as it was.
C33_FailedOnlyAfterOwnMark ==
  [][\A p \in ReqIds :
       (req[p].pc = "fatal" /\ req[p].thrown = "lookup" /\ req'[p].pc = "done")
         => \A d \in DOMAIN docs :
              d \in DOMAIN docs' /\ docs'[d].processingStatus = docs[d].processingStatus]_vars

\* every handler in flight takes its next step: database and service calls
\* return
FairSerialSpec == SerialSpec /\ WF_vars(Step)

\* C34: a document that is PROCESSING eventually becomes COMPLETED or
\* FAILED (or is deleted), whatever the outcome of the writes of the run.
C34_ProcessingEventuallyEnds ==
  \A d \in DocIds :
    (d \in DOMAIN docs /\ docs[d].processingStatus = "PROCESSING")
      ~> (d \notin DOMAIN docs \/ docs[d].processingStatus \in {"COMPLETED", "FAILED"})

\* C35: once a DELETE of document d and the pipeline run it interleaved with
\* have both returned, the persisted totalIncome holds no amount beyond the
\* entries of the documents that still exist: nothing of the deleted one.
C35_DeletedIncomeLeavesTheTotal ==
  \A x \in ReqIds, d \in DocIds :
    (Quiet /\ req[x].response = DeletedResponse(d))
      => taxReturn.totalIncome <= SumOf(ValidIncomeEntries(entries, docs), "amount")

BatchEndStates == {"completed", "error", "duplicate_warning"}

\* C36: the batch status becomes completed ('All documents processed
\* successfully!') only when the entry of the document being processed is
\* completed, in error or waiting on a duplicate warning.
C36_BatchWaitsForTheDocument ==
  [][(dp.batch # "completed" /\ dp'.batch = "completed")
       => dp'.status \in BatchEndStates]_vars

\* C37: in DocumentRealTimeProcessor an entry that is completed stays
\* completed, whatever callback of the monitoring session runs next.
C37_CompletedIsAbsorbing ==
  [][rtm.status = "completed" => rtm'.status = "completed"]_vars

\* the bodies the process endpoint builds for a processed document, with and
\* without a calculation result
ServerPayloads ==
  {ProcessedResponse(d, calc) :
     d \in DocIds,
     calc \in {None, calculateEnhancedTaxReturnWithState(3000000, 300000, "IL")}}

\* how processSingleDocument reads a JSON answer of the process request:
\* response.ok, then result.success, then result.data?.duplicateInfo?.isDuplicate
ProcessOutcomeOf(response) ==
  IF response.status # 200 THEN "http error"
  ELSE IF "success" \in DOMAIN response /\ response.success
  THEN IF "data" \in DOMAIN response /\ response.data.duplicateInfo.isDuplicate
       THEN "json duplicate"
       ELSE "json success"
  ELSE "json failure"

\* C38: when the process request is answered with the body the endpoint
\* builds for a processed document, the entry of DocumentProcessor becomes
\* completed or duplicate_warning, never error.
C38_ServerPayloadCompletesTheEntry ==
  [][\A payload \in ServerPayloads :
       (/\ dp.pc = "processing"
        /\ dp' = ReturnToBatch(
                   HandleProcessResponse(dp, ProcessOutcomeOf(payload), Null)))
         => dp'.status \in {"completed", "duplicate_warning"}]_vars

(* ---------------------------------------------------------------------- *)
(* calculateStateTaxLiability on the bracket tables                       *)
(* ---------------------------------------------------------------------- *)
\* the filing statuses getStateStandardDeduction has a case for
RecognisedFilingStatuses ==
  {"SINGLE", "MARRIED_FILING_JOINTLY", "MARRIED_FILING_SEPARATELY",
   "HEAD_OF_HOUSEHOLD", "QUALIFYING_SURVIVING_SPOUSE"}

\* whole-dollar taxable incomes, in cents, at and around bracket limits
SampleTaxableIncomes ==
  {0, 100000, 1009900, 1010000, 1010100, 2000000, 2019800, 2019900,
   2394200, 2394300, 5000000, 70000000}

RECURSIVE TaxedInBrackets(_, _, _)
\* the sum of taxableInThisBracket over the brackets the loop visits
TaxedInBrackets(brackets, i, taxableIncome) ==
  IF i > Len(brackets) \/ taxableIncome <= brackets[i].min THEN 0
  ELSE (Min(taxableIncome, brackets[i].max) - brackets[i].min)
       + TaxedInBrackets(brackets, i + 1, taxableIncome)

\* one call of calculateStateTaxLiability; `taxed` is what its loop has taxed
CallCalculateStateTaxLiability(taxableIncome, filingStatus, stateCode) ==
  /\ call.fn = Null
  /\ LET stateInfo == getStateInfo(stateCode)
         key == BracketKey(filingStatus)
     IN call' = [fn |-> "calculateStateTaxLiability",
                 input |-> [taxableIncome |-> taxableIncome,
                            filingStatus |-> filingStatus,
                            stateCode |-> stateCode],
                 result |->
                   [liability |->
                      calculateStateTaxLiability(taxableIncome, filingStatus, stateCode),
                    taxed |->
                      IF stateInfo.hasIncomeTax /\ key \in DOMAIN stateInfo.brackets
                      THEN TaxedInBrackets(stateInfo.brackets[key], 1, taxableIncome)
                      ELSE 0]]
  /\ UNCHANGED <<docs, entries, taxReturn, req, stream, rtm, dp>>

\* the rows kept with all their bracket tables
SampleTableStates == {"CA", "TX"}

StateTaxNext ==
  \E taxableIncome \in SampleTaxableIncomes,
     filingStatus \in RecognisedFilingStatuses,
     stateCode \in SampleTableStates :
    CallCalculateStateTaxLiability(taxableIncome, filingStatus, stateCode)

StateTaxSpec == Init /\ [][StateTaxNext]_vars

\* C39: for a state with income tax and a filing status that has a bracket
\* table, the amounts taxed in the brackets add up to the taxable income:
\* every dollar is taxed in exactly one bracket.
C39_EveryDollarTaxedOnce ==
  (/\ call.fn = "calculateStateTaxLiability"
   /\ getStateInfo(call.input.stateCode).hasIncomeTax
   /\ BracketKey(call.input.filingStatus)
        \in DOMAIN getStateInfo(call.input.stateCode).brackets)
    => call.result.taxed = call.input.taxableIncome

\* C40: for a state with income tax, each recognised filing status finds a
\* bracket table: a positive taxable income never yields a liability of 0.
C40_RecognisedStatusFindsBrackets ==
  (/\ call.fn = "calculateStateTaxLiability"
   /\ getStateInfo(call.input.stateCode).hasIncomeTax
   /\ call.input.filingStatus \in RecognisedFilingStatuses
   /\ call.input.taxableIncome > 0)
    => (/\ BracketKey(call.input.filingStatus)
             \in DOMAIN getStateInfo(call.input.stateCode).brackets
        /\ call.result.liability > 0)

====
